---- MODULE Spec2Model ----
(***************************************************************************)
(* A model of the dental extension of the viewer and of its backend:       *)
(*   - the measurement metadata enricher (dentalMeasurementsManager),      *)
(*   - the annotation routes and the Annotation model's access check,      *)
(*   - the viewer-state routes and the ViewerState model's retention.      *)
(*   - the viewer-state handlers interleaved at their awaits,              *)
(*   - share requests that spell a user id in either case.                 *)
(*   - the measurements panel's export and the toolbar's tool buttons,     *)
(*   - the API client's token refresh and the state service's auto-save.   *)
(* Optional JavaScript values (undefined / null / a value) are sequences   *)
(* of length at most one: None is <<>>, Some(v) is <<v>>.                  *)
(* A display label is the sequence of the pieces it is concatenated from.  *)
(***************************************************************************)
EXTENDS Integers, Sequences, FiniteSets, TLC

VARIABLES
  \* ---- enricher (module-level state of dentalMeasurementsManager) ----
  integration,      \* the IntegrationContext, or None (null)
  activePresetId,   \* None or Some(id)
  activeTooth,      \* None or Some([system, value])
  subscribed,       \* the three handlers are subscribed at the host
  \* ---- host measurement service ----
  measurements,     \* uid -> measurement
  pending,          \* notifications the host has emitted and not yet delivered
  chainUpdates,     \* update calls issued since the last external event
  lastRun,          \* the handler run of the last step (NoRun otherwise)
  \* ---- annotations backend ----
  annotations,      \* annotation id -> document
  disk,             \* audio files present in uploads/audio
  uploaded,         \* annotation id -> the file stored with it at creation
  lastReq,          \* the annotation request of the last step and its answer
  \* ---- viewer-state backend ----
  viewerStates,     \* the ViewerState collection (a set of documents)
  now,              \* the clock that stamps createdAt / updatedAt
  fresh,            \* per (user, study): the next session id never used
  extras,           \* number of requests other than SaveNewSession so far
  lastSave,         \* the viewer-state request of the last step and its answer
  requests,         \* the viewer-state requests in flight: each handler's position
  listeners,        \* number of handlers the host holds per measurement event
  exportPayload,    \* the payload of the panel's last export, or None
  activeTool,       \* the tool active in the viewport (host toolbar state), or None
  drawnWith,        \* uid -> the tool the measurement was drawn with
  accessToken,      \* ApiClient.accessToken: None or Some(token)
  refreshToken,     \* ApiClient.refreshToken: None or Some(token)
  refreshPromise,   \* ApiClient.refreshPromise: None or Some(id of the refresh call it settles with)
  calls,            \* the makeRequest invocations of the API client, by id
  currentUser,      \* AuthService.currentUser: None or Some(user)
  isAutoSaveEnabled, \* StateService.isAutoSaveEnabled
  autoSaveInterval, \* StateService.autoSaveInterval: the 30-second interval is set
  autoSaveDelay,    \* StateService.autoSaveDelay: None, or the debounce timer (pending / fired)
  lastSavedState,   \* StateService.lastSavedState: None or Some(state string)
  currentStudyUID,  \* StateService.currentStudyUID
  currentSessionId, \* StateService.currentSessionId
  autoSaves         \* the auto-save requests the state service has issued, in order

enricherVars == <<integration, activePresetId, activeTooth, subscribed,
                  measurements, pending, chainUpdates, lastRun>>
annotationVars == <<annotations, disk, uploaded, lastReq>>
viewerStateVars == <<viewerStates, now, fresh, extras, lastSave>>
vars == <<integration, activePresetId, activeTooth, subscribed,
          measurements, pending, chainUpdates, lastRun,
          annotations, disk, uploaded, lastReq,
          viewerStates, now, fresh, extras, lastSave, requests, listeners,
    exportPayload,
    activeTool,
    drawnWith,
    accessToken,
    refreshToken,
    refreshPromise,
    calls,
    currentUser,
    isAutoSaveEnabled,
    autoSaveInterval,
    autoSaveDelay,
    lastSavedState,
    currentStudyUID,
    currentSessionId,
    autoSaves>>

None == <<>>
Some(v) == <<v>>

\* a ?? b
Coalesce(a, b) == IF a # None THEN a ELSE b

Min(S) == CHOOSE m \in S : \A n \in S : m <= n

\* Array.prototype.find: the first element that passes the test
\* (passing: the indexes of the elements that pass it)
find(seq, passing) ==
  IF passing = {} THEN None ELSE Some(seq[Min(passing)])

(***************************************************************************)
(*                    MEASUREMENT METADATA ENRICHER                        *)
(***************************************************************************)

DENTAL_MEASUREMENT_PRESETS_CrownInDegrees == <<
  [id |-> "periapical-length", label |-> "PA length",   toolName |-> "Length", unit |-> "mm"],
  [id |-> "canal-angle",       label |-> "Canal angle", toolName |-> "Angle",  unit |-> "°"],
  [id |-> "crown-width",       label |-> "Crown width", toolName |-> "Length", unit |-> "°"],
  [id |-> "crown-width",       label |-> "Root length", toolName |-> "Length", unit |-> "mm"] >>

DENTAL_MEASUREMENT_PRESETS == <<
  [id |-> "periapical-length", label |-> "PA length",   toolName |-> "Length", unit |-> "mm"],
  [id |-> "canal-angle",       label |-> "Canal angle", toolName |-> "Angle",  unit |-> "°"],
  [id |-> "crown-width",       label |-> "Crown width", toolName |-> "Length", unit |-> "mm"],
  [id |-> "root-length",       label |-> "Root length", toolName |-> "Length", unit |-> "mm"] >>

PresetById(id) ==
  find(DENTAL_MEASUREMENT_PRESETS,
       {i \in 1..Len(DENTAL_MEASUREMENT_PRESETS) : DENTAL_MEASUREMENT_PRESETS[i].id = id})

\* ---- the inputs the host and the UI can supply (bounded) ----
UIDs == {"m1"}

\* preset ids a caller passes to selectDentalMeasurementPreset
SelectableIds == {"periapical-length", "canal-angle", "no-such-preset"}

\* tooth selections of the dropdown
ToothSelections == { [system |-> "FDI", value |-> "11"],
                     [system |-> "UNIVERSAL", value |-> "3"] }

NoEntryFields == [length |-> None, angle |-> None, value |-> None]
NoStats == [angle |-> None, mean |-> None, longestDiameter |-> None,
            length |-> None, maxDiameter |-> None]

\* The geometric part of a measurement, as the value accessor reads it:
\* data (the per-image entries), the top-level length / angle, cachedStats,
\* metadata.cachedStats and metadata.length.  Values are finite numbers.
Geometry(data, length, angle, cachedStats, metaStats, metaLength) ==
  [data |-> data, length |-> length, angle |-> angle,
   cachedStats |-> cachedStats, metaCachedStats |-> metaStats, metaLength |-> metaLength]

GeomLength15 ==
  Geometry(Some(<<[NoEntryFields EXCEPT !.length = Some(15)]>>), None, None, None, None, None)
GeomAngle42 ==
  Geometry(Some(<<[NoEntryFields EXCEPT !.angle = Some(42)]>>), None, None, None, None, None)
GeomValue9 ==
  Geometry(Some(<<[NoEntryFields EXCEPT !.value = Some(9)]>>), None, None, None, None, None)
GeomStatsOnly ==
  Geometry(Some(<<>>), None, None,
           Some([NoStats EXCEPT !.longestDiameter = Some(7), !.mean = Some(30)]), None, None)

Geometries == {GeomLength15, GeomAngle42, GeomValue9, GeomStatsOnly}

NoMetadata ==
  [dentalPresetId |-> None, dentalPresetLabel |-> None, dentalUnit |-> None,
   dentalValue |-> None, dentalTooth |-> None, dentalCreatedAt |-> None]

\* metadata a measurement may carry when the host announces it
\* (nothing, or what an earlier session stamped)
IncomingMetadata == {
  NoMetadata,
  [NoMetadata EXCEPT !.dentalPresetId = Some("periapical-length"),
                     !.dentalPresetLabel = Some("PA length"),
                     !.dentalUnit = Some("mm"),
                     !.dentalValue = Some(15),
                     !.dentalTooth = Some([system |-> "FDI", value |-> "11"]),
                     !.dentalCreatedAt = Some("earlier")],
  [NoMetadata EXCEPT !.dentalPresetId = Some("canal-angle"),
                     !.dentalPresetLabel = Some("Canal angle")],
  [NoMetadata EXCEPT !.dentalPresetLabel = Some("PA length")],
  [NoMetadata EXCEPT !.dentalPresetId = Some("retired-preset")] }

\* labels a measurement may carry when the host announces it
IncomingLabels == {
  <<>>,
  <<"PA length">>,
  <<"PA length", " (", "FDI", " ", "11", ")">>,
  <<"pa length", " (", "fdi", " ", "21", ")">>,
  <<"Canal angle", " (", "Universal", " ", "3", ")">> }

\* String.prototype.toLowerCase on the pieces labels are made of
toLowerCase(s) ==
  CASE s = "PA length"   -> "pa length"
    [] s = "Canal angle" -> "canal angle"
    [] s = "Crown width" -> "crown width"
    [] s = "Root length" -> "root length"
    [] s = "FDI"         -> "fdi"
    [] s = "Universal"   -> "universal"
    [] s = "UNIVERSAL"   -> "universal"
    [] OTHER             -> s

\* \d+
IsDigits(s) == s \in {"3", "11", "21"}

Truthy(opt) == opt # None /\ opt[1] # ""

getMeasurementService_Always == TRUE

getMeasurementService == integration # None

measurementHasDentalMetadata_Never(measurement) == FALSE

measurementHasDentalMetadata(measurement) ==
  Truthy(measurement.metadata.dentalPresetId) \/ Truthy(measurement.metadata.dentalPresetLabel)

IsAnglePreset(preset) == preset.toolName = "Angle" \/ preset.unit = "°"

computeMeasurementValue(preset, measurement) ==
  LET g == measurement.geom
      stats == Coalesce(g.cachedStats, g.metaCachedStats)
      stat(field) == IF stats = None THEN None ELSE stats[1][field]
  IN IF g.data # None /\ Len(g.data[1]) > 0
     THEN LET dataEntry == g.data[1][1]
          IN IF IsAnglePreset(preset)
             THEN Coalesce(dataEntry.angle, dataEntry.value)
             ELSE Coalesce(dataEntry.length, dataEntry.value)
     ELSE IF IsAnglePreset(preset)
          THEN Coalesce(g.angle, Coalesce(stat("angle"), stat("mean")))
          ELSE Coalesce(g.length,
                 Coalesce(stat("longestDiameter"),
                   Coalesce(stat("length"),
                     Coalesce(stat("maxDiameter"), g.metaLength))))

metadataChanged_AlwaysTrue(currentMetadata, nextMetadata) == TRUE

metadataChanged(currentMetadata, nextMetadata) ==
  \/ \E key \in {"dentalPresetId", "dentalPresetLabel", "dentalUnit", "dentalValue"} :
        currentMetadata[key] # nextMetadata[key]
  \/ LET currentTooth == currentMetadata.dentalTooth
         nextTooth == nextMetadata.dentalTooth
         system(t) == IF t = None THEN None ELSE Some(t[1].system)
         value(t) == IF t = None THEN None ELSE Some(t[1].value)
     IN system(currentTooth) # system(nextTooth) \/ value(currentTooth) # value(nextTooth)

presetToApply(measurement, preset) ==
  IF preset # None
  THEN preset
  ELSE find(DENTAL_MEASUREMENT_PRESETS,
            {i \in 1..Len(DENTAL_MEASUREMENT_PRESETS) :
               LET p == DENTAL_MEASUREMENT_PRESETS[i]
               IN IF Truthy(measurement.metadata.dentalPresetId)
                  THEN p.id = measurement.metadata.dentalPresetId[1]
                  ELSE activePresetId # None /\ p.id = activePresetId[1]})

nextMetadataOf_ActiveToothWins(measurement, p) ==
  LET stamped == [measurement.metadata EXCEPT
                    !.dentalPresetId = Some(p.id),
                    !.dentalPresetLabel = Some(p.label),
                    !.dentalUnit = Some(p.unit),
                    !.dentalValue = computeMeasurementValue(p, measurement),
                    !.dentalCreatedAt = Coalesce(@, Some("now"))]
  IN IF activeTooth # None
     THEN [stamped EXCEPT !.dentalTooth = activeTooth]
     ELSE stamped

nextMetadataOf(measurement, p) ==
  LET stamped == [measurement.metadata EXCEPT
                    !.dentalPresetId = Some(p.id),
                    !.dentalPresetLabel = Some(p.label),
                    !.dentalUnit = Some(p.unit),
                    !.dentalValue = computeMeasurementValue(p, measurement),
                    !.dentalCreatedAt = Coalesce(@, Some("now"))]
  IN IF stamped.dentalTooth = None /\ activeTooth # None
     THEN [stamped EXCEPT !.dentalTooth = activeTooth]
     ELSE stamped

labelSuffixOf_NoTooth(p, nextMetadata) == <<p.label>>

labelSuffixOf(p, nextMetadata) ==
  IF nextMetadata.dentalTooth # None
  THEN <<p.label, " (", nextMetadata.dentalTooth[1].system, " ",
         nextMetadata.dentalTooth[1].value, ")">>
  ELSE <<p.label>>

\* The update calls applyDentalMetadata issues (none or one), each the
\* measurement handed to measurementService.update.
applyDentalMetadata(measurement, preset) ==
  IF ~getMeasurementService
  THEN <<>>
  ELSE LET chosen == presetToApply(measurement, preset)
       IN IF chosen = None
          THEN <<>>
          ELSE LET nextMetadata == nextMetadataOf(measurement, chosen[1])
                   labelSuffix == labelSuffixOf(chosen[1], nextMetadata)
               IN IF ~metadataChanged(measurement.metadata, nextMetadata)
                     /\ measurement.label = labelSuffix
                  THEN <<>>
                  ELSE << [measurement EXCEPT !.label = labelSuffix,
                                             !.metadata = nextMetadata] >>

handleMeasurementAdded(measurement) ==
  IF Truthy(activePresetId)
  THEN applyDentalMetadata(measurement, PresetById(activePresetId[1]))
  ELSE IF measurementHasDentalMetadata(measurement)
       THEN applyDentalMetadata(measurement, None)
       ELSE <<>>

handleMeasurementUpdated(measurement) ==
  IF ~measurementHasDentalMetadata(measurement)
  THEN <<>>
  ELSE LET presetId == measurement.metadata.dentalPresetId
       IN applyDentalMetadata(measurement,
            IF presetId = None THEN None ELSE PresetById(presetId[1]))

\* RegExp.prototype.test for /<piece>/i: the label contains the piece, in any case
TestIgnoreCase(piece, label) ==
  \E i \in 1..Len(label) : toLowerCase(label[i]) = piece

\* label.match(/\(<system> (\d+)\)/i): the captured digits of the first match
MatchToothNotation(system, label) ==
  LET hits == {i \in 1..Len(label) :
                 /\ i + 4 <= Len(label)
                 /\ label[i] = " ("
                 /\ toLowerCase(label[i + 1]) = system
                 /\ label[i + 2] = " "
                 /\ IsDigits(label[i + 3])
                 /\ label[i + 4] = ")"}
  IN IF hits = {} THEN None ELSE Some(label[Min(hits) + 3])

matchedPresetOf(label) ==
  IF TestIgnoreCase("pa length", label) THEN PresetById("periapical-length")
  ELSE IF TestIgnoreCase("canal angle", label) THEN PresetById("canal-angle")
  ELSE IF TestIgnoreCase("crown width", label) THEN PresetById("crown-width")
  ELSE IF TestIgnoreCase("root length", label) THEN PresetById("root-length")
  ELSE None

toothInfoOf(label) ==
  LET fdiMatch == MatchToothNotation("fdi", label)
      universalMatch == MatchToothNotation("universal", label)
  IN IF fdiMatch # None THEN Some([system |-> "FDI", value |-> fdiMatch[1]])
     ELSE IF universalMatch # None
          THEN Some([system |-> "UNIVERSAL", value |-> universalMatch[1]])
          ELSE None

\* The update calls the re-scan issues for one measurement of the list.
enhanceOne(measurement) ==
  IF measurementHasDentalMetadata(measurement)
  THEN <<>>
  ELSE LET matchedPreset == matchedPresetOf(measurement.label)
       IN IF matchedPreset = None
          THEN <<>>
          ELSE LET p == matchedPreset[1]
                   toothInfo == toothInfoOf(measurement.label)
                   stamped == [measurement.metadata EXCEPT
                                 !.dentalPresetId = Some(p.id),
                                 !.dentalPresetLabel = Some(p.label),
                                 !.dentalUnit = Some(p.unit),
                                 !.dentalValue = computeMeasurementValue(p, measurement),
                                 !.dentalCreatedAt = Coalesce(@, Some("now"))]
                   nextMetadata == IF toothInfo # None
                                   THEN [stamped EXCEPT !.dentalTooth = toothInfo]
                                   ELSE stamped
               IN << [measurement EXCEPT !.metadata = nextMetadata] >>

\* ---- the host's measurement service ----

\* upper bound of the update-call counter of one notification chain
MaxChain == 4

NoRun == [op |-> "none", before |-> <<>>, preset |-> None, tooth |-> None,
          ready |-> FALSE, updates |-> <<>>, commands |-> <<>>]

Run(op, before, updates) ==
  [op |-> op, before |-> before, preset |-> activePresetId, tooth |-> activeTooth,
   ready |-> integration # None, updates |-> updates, commands |-> <<>>]

RECURSIVE StoreAll(_, _)
\* measurementService.update(uid, measurement, true), for each call in turn:
\* the service stores the measurement ...
StoreAll(store, updates) ==
  IF updates = <<>>
  THEN store
  ELSE LET m == Head(updates)
       IN StoreAll(IF m.uid \in DOMAIN store THEN [store EXCEPT ![m.uid] = m] ELSE store,
                   Tail(updates))

\* ... and re-emits a measurement-updated notification that carries it.
Notifications(updates) ==
  [i \in 1..Len(updates) |-> [type |-> "updated", measurement |-> Some(updates[i])]]

Bump(n, k) == IF n + k > MaxChain THEN MaxChain ELSE n + k

Idle == pending = <<>>

\* The tool (or a restore of stored measurements) adds a measurement.
HostAddMeasurement(uid, label, metadata, geom) ==
  /\ Idle
  /\ uid \notin DOMAIN measurements
  /\ LET m == [uid |-> uid, label |-> label, metadata |-> metadata, geom |-> geom]
     IN /\ measurements' = (uid :> m) @@ measurements
        /\ pending' = << [type |-> "added", measurement |-> Some(m)] >>
  /\ chainUpdates' = 0
  /\ lastRun' = NoRun
  /\ UNCHANGED <<integration, activePresetId, activeTooth, subscribed, listeners>>

\* The host stores a modified measurement and announces it.
HostModify(uid, m) ==
  /\ Idle
  /\ uid \in DOMAIN measurements
  /\ measurements' = [measurements EXCEPT ![uid] = m]
  /\ pending' = << [type |-> "updated", measurement |-> Some(m)] >>
  /\ chainUpdates' = 0
  /\ lastRun' = NoRun
  /\ UNCHANGED <<integration, activePresetId, activeTooth, subscribed, listeners>>

\* The user drags a handle of a measurement.
HostEditGeometry(uid, geom) ==
  uid \in DOMAIN measurements /\ HostModify(uid, [measurements[uid] EXCEPT !.geom = geom])

\* The user renames a measurement.
HostRename(uid, label) ==
  uid \in DOMAIN measurements /\ HostModify(uid, [measurements[uid] EXCEPT !.label = label])

HostClearMeasurements ==
  /\ Idle
  /\ measurements # <<>>
  /\ measurements' = <<>>
  /\ pending' = << [type |-> "cleared", measurement |-> None] >>
  /\ chainUpdates' = 0
  /\ lastRun' = NoRun
  /\ UNCHANGED <<integration, activePresetId, activeTooth, subscribed, listeners>>

\* The host delivers its oldest notification to the subscribed handler.
Deliver ==
  /\ pending # <<>>
  /\ LET ev == Head(pending)
         updates == IF ~subscribed THEN <<>>
                    ELSE IF ev.type = "added" THEN handleMeasurementAdded(ev.measurement[1])
                    ELSE IF ev.type = "updated" THEN handleMeasurementUpdated(ev.measurement[1])
                    ELSE <<>>
     IN /\ measurements' = StoreAll(measurements, updates)
        /\ pending' = Tail(pending) \o Notifications(updates)
        /\ chainUpdates' = Bump(chainUpdates, Len(updates))
        /\ activePresetId' = IF subscribed /\ ev.type = "cleared" THEN None ELSE activePresetId
        /\ lastRun' = IF subscribed THEN Run(ev.type, ev.measurement, updates) ELSE NoRun
  /\ UNCHANGED <<integration, activeTooth, subscribed, listeners>>

RECURSIVE enhanceAll(_)
enhanceAll(list) ==
  IF list = <<>> THEN <<>> ELSE enhanceOne(Head(list)) \o enhanceAll(Tail(list))

RECURSIVE ListOf(_, _)
\* measurementService.getMeasurements()
ListOf(store, uids) ==
  IF uids = {} THEN <<>>
  ELSE LET u == CHOOSE x \in uids : TRUE
       IN <<store[u]>> \o ListOf(store, uids \ {u})

enhanceExistingMeasurements ==
  /\ Idle
  /\ LET updates == IF ~getMeasurementService THEN <<>>
                    ELSE enhanceAll(ListOf(measurements, DOMAIN measurements))
     IN /\ measurements' = StoreAll(measurements, updates)
        /\ pending' = Notifications(updates)
        /\ chainUpdates' = Bump(0, Len(updates))
        /\ lastRun' = Run("rescan", ListOf(measurements, DOMAIN measurements), updates)
  /\ UNCHANGED <<integration, activePresetId, activeTooth, subscribed, listeners>>

\* the values of toolGroupIds the host passes
ToolGroupIds == { <<"default">>, <<"default", "mpr">> }

clearSubscriptions_ReleasesNothing(held, live) == live

\* clearSubscriptions: every unsubscribe function the manager holds is
\* called, which takes its handler set off the host's list; the result is the
\* number of handler sets the host still holds
clearSubscriptions(held, live) == IF held THEN live - 1 ELSE live

initializeDentalMeasurements(hasMeasurementService, hasCommandsManager, toolGroupIds) ==
  /\ Idle
  /\ IF ~hasMeasurementService \/ ~hasCommandsManager
     THEN /\ UNCHANGED <<integration, subscribed, listeners>>
          /\ lastRun' = Run("init-lacking", <<>>, <<>>)
     ELSE /\ integration' = Some([toolGroupIds |-> toolGroupIds])
          /\ listeners' = clearSubscriptions(subscribed, listeners) + 1
          /\ subscribed' = TRUE
          /\ lastRun' = Run("init", <<>>, <<>>)
  /\ chainUpdates' = 0
  /\ UNCHANGED <<activePresetId, activeTooth, measurements, pending>>

teardownDentalMeasurements ==
  /\ Idle
  /\ listeners' = clearSubscriptions(subscribed, listeners)
  /\ subscribed' = FALSE
  /\ integration' = None
  /\ activePresetId' = None
  /\ chainUpdates' = 0
  /\ lastRun' = Run("teardown", <<>>, <<>>)
  /\ UNCHANGED <<activeTooth, measurements, pending>>

runCommand_DefaultToolGroup(commandName, options, context) ==
  [commandName |-> commandName,
   options |-> [options EXCEPT !.toolGroupIds = <<"default">>],
   context |-> context]

\* commandsManager.runCommand(commandName, options, context)
runCommand(commandName, options, context) ==
  [commandName |-> commandName, options |-> options, context |-> context]

selectDentalMeasurementPreset(presetId) ==
  /\ Idle
  /\ activePresetId' = Some(presetId)
  /\ chainUpdates' = 0
  /\ LET preset == PresetById(presetId)
         commands == IF preset = None \/ integration = None
                     THEN <<>>
                     ELSE << runCommand("setToolActive",
                                        [toolName |-> preset[1].toolName,
                                         toolGroupIds |-> integration[1].toolGroupIds],
                                        "CORNERSTONE") >>
     IN lastRun' = [Run("select", <<>>, <<>>) EXCEPT !.preset = Some(presetId),
                                                     !.commands = commands]
  /\ UNCHANGED <<integration, activeTooth, subscribed, listeners, measurements, pending>>

getActiveDentalPresetId == activePresetId

setActiveDentalTooth(selection) ==
  /\ Idle
  /\ activeTooth' = selection
  /\ chainUpdates' = 0
  /\ lastRun' = NoRun
  /\ UNCHANGED <<integration, activePresetId, subscribed, listeners, measurements, pending>>

backendVars == <<annotations, disk, uploaded, lastReq,
                 viewerStates, now, fresh, extras, lastSave, requests,
    exportPayload,
    activeTool,
    drawnWith,
    accessToken,
    refreshToken,
    refreshPromise,
    calls,
    currentUser,
    isAutoSaveEnabled,
    autoSaveInterval,
    autoSaveDelay,
    lastSavedState,
    currentStudyUID,
    currentSessionId,
    autoSaves>>

MeasurementAdded ==
  /\ \E uid \in UIDs, label \in IncomingLabels,
        metadata \in IncomingMetadata, geom \in Geometries :
          HostAddMeasurement(uid, label, metadata, geom)
  /\ UNCHANGED backendVars

MeasurementEdited ==
  /\ \E uid \in UIDs, geom \in Geometries : HostEditGeometry(uid, geom)
  /\ UNCHANGED backendVars

MeasurementRenamed ==
  /\ \E uid \in UIDs, label \in IncomingLabels : HostRename(uid, label)
  /\ UNCHANGED backendVars

MeasurementsCleared == HostClearMeasurements /\ UNCHANGED backendVars

DeliverNotification == Deliver /\ UNCHANGED backendVars

Rescan == enhanceExistingMeasurements /\ UNCHANGED backendVars

Initialize ==
  /\ \E hasMeasurementService \in BOOLEAN, hasCommandsManager \in BOOLEAN,
        toolGroupIds \in ToolGroupIds :
          initializeDentalMeasurements(hasMeasurementService, hasCommandsManager,
                                       toolGroupIds)
  /\ UNCHANGED backendVars

Teardown == teardownDentalMeasurements /\ UNCHANGED backendVars

SelectPreset ==
  /\ \E presetId \in SelectableIds : selectDentalMeasurementPreset(presetId)
  /\ UNCHANGED backendVars

SetTooth ==
  /\ \E selection \in {None} \cup {Some(t) : t \in ToothSelections} :
        setActiveDentalTooth(selection)
  /\ UNCHANGED backendVars

NextEnricher ==
  \/ MeasurementAdded
  \/ MeasurementEdited
  \/ MeasurementRenamed
  \/ MeasurementsCleared
  \/ DeliverNotification
  \/ Rescan
  \/ Initialize
  \/ Teardown
  \/ SelectPreset
  \/ SetTooth

(***************************************************************************)
(*                         ANNOTATIONS BACKEND                             *)
(***************************************************************************)

Users == {"alice", "bob"}

\* upper bound of the number of annotations ever created
MaxAnnotations == 1

\* An ObjectId reference held by a document.  populate() replaces the id by the
\* User document it refers to.
Ref(u) == [oid |-> u, populated |-> FALSE]

\* toString(): of an ObjectId, its hex string; of a populated path, the string
\* form of the User document (its inspect() output), which is no id string.
toString(ref) == IF ref.populated THEN <<"document", ref.oid>> ELSE <<"hex", ref.oid>>

\* the hex string a client sends for a user id
hex(u) == <<"hex", u>>

\* .populate('userId', ...).populate('sharedWith.userId', ...) of GET /:id
populate(doc) ==
  [doc EXCEPT !.userId = [@ EXCEPT !.populated = TRUE],
              !.sharedWith = [i \in 1..Len(@) |->
                                [@[i] EXCEPT !.userId = [@ EXCEPT !.populated = TRUE]]]]

canAccess_IgnoresPrivate(doc, userId, permission) ==
  IF toString(doc.userId) = toString(userId) THEN TRUE
  ELSE LET sharedEntry == find(doc.sharedWith,
                               {i \in 1..Len(doc.sharedWith) :
                                  toString(doc.sharedWith[i].userId) = toString(userId)})
       IN IF sharedEntry = None THEN FALSE
          ELSE IF permission = "write" THEN sharedEntry[1].permission = "write"
          ELSE TRUE

\* annotationSchema.methods.canAccess
canAccess(doc, userId, permission) ==
  IF toString(doc.userId) = toString(userId) THEN TRUE
  ELSE IF doc.isPrivate THEN FALSE
  ELSE LET sharedEntry == find(doc.sharedWith,
                               {i \in 1..Len(doc.sharedWith) :
                                  toString(doc.sharedWith[i].userId) = toString(userId)})
       IN IF sharedEntry = None THEN FALSE
          ELSE IF permission = "write" THEN sharedEntry[1].permission = "write"
          ELSE TRUE

isOwner_Anyone(doc, userId) == TRUE

\* annotation.userId.toString() === req.user._id.toString()
isOwner(doc, userId) == toString(doc.userId) = toString(userId)

\* fs.unlink(path).catch(console.error): removes the file; a missing file is an
\* error that is logged and otherwise ignored
unlink_KeepsFile(files, filename) == files

\* fs.unlink(path)
unlink(files, filename) == files \ {filename}

Categories == {"diagnosis", "treatment", "observation", "note"}
Permissions == {"read", "write"}

\* file names a client can put into content.audioData.filename: those multer
\* gives to uploads (the number of the annotation), and one it never gives
Filenames == 1..(MaxAnnotations + 1)

\* request bodies of PUT /:id, one key each.  `content` replaces the nested
\* content object, audioData included; category stands for the validated scalar
\* fields (category, status, priority), which are all handled alike.
NoBody == [category |-> None, isPrivate |-> None, content |-> None]
PutBodies ==
  { [NoBody EXCEPT !.category = Some(c)] : c \in {"treatment", "no-such-category"} }
  \cup { [NoBody EXCEPT !.isPrivate = Some(b)] : b \in BOOLEAN }
  \cup { [NoBody EXCEPT !.content = Some([text |-> "text", audioData |-> a])] :
           a \in {None} \cup {Some(f) : f \in Filenames} }

\* updateAnnotationValidation
PutBodyValid(body) == body.category = None \/ body.category[1] \in Categories

\* request bodies of POST /:id/share
ShareUserIds == { <<hex("alice")>>, <<hex("bob")>>, <<hex("alice"), hex("bob")>> }
SharePermissions == {"read", "write", "admin"}

Request(op, user, id, valid, status, docBefore, changed) ==
  [op |-> op, user |-> user, id |-> id, valid |-> valid, status |-> status,
   doc |-> docBefore, changed |-> changed, file |-> None]

Answer(op, user, id, valid, status) ==
  lastReq' = Some(Request(op, user, id, valid, status,
                          IF id \in DOMAIN annotations THEN Some(annotations[id]) ELSE None,
                          <<annotations', disk'>> # <<annotations, disk>>))

Remove(store, id) == [i \in DOMAIN store \ {id} |-> store[i]]

\* what can throw inside the try block of POST /: JSON.parse of a field sent
\* as a string, annotation.save(), annotation.populate()
CreateFailures == {"none", "unparsable", "save-error", "populate-error"}

\* POST / (multer has stored the audio file, if any, before the handler runs;
\* its unique name is modelled by the number of the annotation being created)
CreateAnnotation(user, withAudio, isPrivate, valid, failure) ==
  LET id == Cardinality(DOMAIN uploaded) + 1
      file == IF withAudio THEN Some(id) ELSE None
      stored == IF withAudio THEN disk \cup {id} ELSE disk
      status == IF ~valid THEN 400 ELSE IF failure = "none" THEN 201 ELSE 500
      annotation == [userId |-> Ref(user),
                     isPrivate |-> isPrivate,
                     sharedWith |-> <<>>,
                     category |-> "note",
                     content |-> [text |-> "text", audioData |-> file]]
  IN /\ id <= MaxAnnotations
     /\ IF ~valid \/ failure \in {"unparsable", "save-error"}
        THEN \* validation failed; or JSON.parse or annotation.save() threw
             /\ disk' = IF withAudio THEN unlink(stored, id) ELSE stored
             /\ UNCHANGED <<annotations, uploaded>>
        ELSE /\ annotations' = (id :> annotation) @@ annotations
             /\ uploaded' = (id :> file) @@ uploaded
             /\ disk' = IF failure = "populate-error" /\ withAudio
                        THEN unlink(stored, id)
                        ELSE stored
     /\ lastReq' = Some([Request("create", user, id, valid, status, None,
                                 <<annotations', disk'>> # <<annotations, disk>>)
                           EXCEPT !.file = file])

\* GET /:id
GetAnnotation(user, id) ==
  /\ UNCHANGED <<annotations, disk, uploaded>>
  /\ IF id \notin DOMAIN annotations
     THEN Answer("get", user, id, TRUE, 404)
     ELSE LET annotation == populate(annotations[id])
          IN IF ~canAccess(annotation, Ref(user), "read")
             THEN Answer("get", user, id, TRUE, 403)
             ELSE Answer("get", user, id, TRUE, 200)

\* PUT /:id
UpdateAnnotation(user, id, body) ==
  /\ UNCHANGED <<disk, uploaded>>
  /\ IF ~PutBodyValid(body)
     THEN UNCHANGED annotations /\ Answer("put", user, id, FALSE, 400)
     ELSE IF id \notin DOMAIN annotations
     THEN UNCHANGED annotations /\ Answer("put", user, id, TRUE, 404)
     ELSE IF ~canAccess(annotations[id], Ref(user), "write")
     THEN UNCHANGED annotations /\ Answer("put", user, id, TRUE, 403)
     ELSE /\ annotations' =
               [annotations EXCEPT ![id] =
                  [@ EXCEPT !.category = IF body.category # None THEN body.category[1] ELSE @,
                            !.isPrivate = IF body.isPrivate # None THEN body.isPrivate[1] ELSE @,
                            !.content = IF body.content # None THEN body.content[1] ELSE @]]
          /\ Answer("put", user, id, TRUE, 200)

\* DELETE /:id
DeleteAnnotation(user, id) ==
  /\ UNCHANGED uploaded
  /\ IF id \notin DOMAIN annotations
     THEN UNCHANGED <<annotations, disk>> /\ Answer("delete", user, id, TRUE, 404)
     ELSE IF ~isOwner(annotations[id], Ref(user))
     THEN UNCHANGED <<annotations, disk>> /\ Answer("delete", user, id, TRUE, 403)
     ELSE /\ disk' = IF annotations[id].content.audioData # None
                     THEN unlink(disk, annotations[id].content.audioData[1])
                     ELSE disk
          /\ annotations' = Remove(annotations, id)
          /\ Answer("delete", user, id, TRUE, 200)

RECURSIVE shareWith(_, _, _)
\* userIds.forEach(...): set the permission of the entry found, else push one
shareWith(sharedWith, userIds, permission) ==
  IF userIds = <<>>
  THEN sharedWith
  ELSE LET userId == Head(userIds)
           at == {i \in 1..Len(sharedWith) : toString(sharedWith[i].userId) = userId}
       IN shareWith(IF at # {}
                    THEN [sharedWith EXCEPT ![Min(at)].permission = permission]
                    ELSE Append(sharedWith, [userId |-> Ref(userId[2]),
                                             permission |-> permission]),
                    Tail(userIds), permission)

\* POST /:id/share
ShareAnnotation(user, id, userIds, permission) ==
  /\ UNCHANGED <<disk, uploaded>>
  /\ IF permission \notin Permissions
     THEN UNCHANGED annotations /\ Answer("share", user, id, FALSE, 400)
     ELSE IF id \notin DOMAIN annotations
     THEN UNCHANGED annotations /\ Answer("share", user, id, TRUE, 404)
     ELSE IF ~isOwner(annotations[id], Ref(user))
     THEN UNCHANGED annotations /\ Answer("share", user, id, TRUE, 403)
     ELSE /\ annotations' = [annotations EXCEPT ![id].sharedWith =
                               shareWith(@, userIds, permission)]
          /\ Answer("share", user, id, TRUE, 200)

otherThanAnnotations == <<integration, activePresetId, activeTooth, subscribed,
                          measurements, pending, chainUpdates, lastRun,
                          viewerStates, now, fresh, extras, lastSave,
                          requests, listeners,
    exportPayload,
    activeTool,
    drawnWith,
    accessToken,
    refreshToken,
    refreshPromise,
    calls,
    currentUser,
    isAutoSaveEnabled,
    autoSaveInterval,
    autoSaveDelay,
    lastSavedState,
    currentStudyUID,
    currentSessionId,
    autoSaves>>

Create ==
  /\ \E user \in Users, withAudio \in BOOLEAN, isPrivate \in BOOLEAN, valid \in BOOLEAN,
        failure \in CreateFailures :
          CreateAnnotation(user, withAudio, isPrivate, valid, failure)
  /\ UNCHANGED otherThanAnnotations

Get ==
  /\ \E user \in Users, id \in 1..MaxAnnotations : GetAnnotation(user, id)
  /\ UNCHANGED otherThanAnnotations

Update ==
  /\ \E user \in Users, id \in 1..MaxAnnotations, body \in PutBodies :
        UpdateAnnotation(user, id, body)
  /\ UNCHANGED otherThanAnnotations

Delete ==
  /\ \E user \in Users, id \in 1..MaxAnnotations : DeleteAnnotation(user, id)
  /\ UNCHANGED otherThanAnnotations

Share ==
  /\ \E user \in Users, id \in 1..MaxAnnotations,
        userIds \in ShareUserIds, permission \in SharePermissions :
        ShareAnnotation(user, id, userIds, permission)
  /\ UNCHANGED otherThanAnnotations

NextAnnotations == Create \/ Get \/ Update \/ Delete \/ Share

\* ---- share requests with every spelling of a user id ----

\* upper bound of the length of a share list
MaxShares == 3

\* the same 24 hex digits in upper case: a string the ObjectId cast accepts
\* for the same id, and that no ObjectId's toString() returns
toUpperCase(id) == <<"HEX", id[2]>>

\* userIds of POST /:id/share: the elements are not validated, so an id can
\* come in either case and more than once
SpelledUserIds ==
  { <<hex("bob")>>, <<toUpperCase(hex("bob"))>>,
    <<hex("bob"), hex("bob")>>,
    <<hex("alice"), toUpperCase(hex("bob"))>> }

ShareSpelled ==
  /\ \E user \in Users, id \in 1..MaxAnnotations,
        userIds \in SpelledUserIds, permission \in Permissions :
        /\ ShareAnnotation(user, id, userIds, permission)
        /\ id \in DOMAIN annotations => Len(annotations'[id].sharedWith) <= MaxShares
  /\ UNCHANGED otherThanAnnotations

NextSharing == Create \/ Get \/ ShareSpelled

(***************************************************************************)
(*                         VIEWER-STATE BACKEND                            *)
(***************************************************************************)

Studies == {"study-1", "study-2"}

\* cleanupOldStates: .skip(10)
KeepLatest == 10

\* session ids are numbered in the order a (user, study) first uses them
MaxSessions == 12

\* upper bound of the number of requests other than SaveNewSession
MaxExtra == 2

\* A request's `state`: what it holds, and whether it is written exactly as
\* Mongoose stores it (every default filled in) or as a client builds it.
Contents == {"layout-a", "layout-b"}
States == [content : Contents, canonical : BOOLEAN]

\* the state object SaveNewSession sends
InitialState == [content |-> "layout-a", canonical |-> FALSE]

\* casting a request's state to the schema: the stored value
cast(state) == state.content

\* the session ids a request names: the first of the (user, study), and the
\* next one never used
SessionIds(userId, studyInstanceUID) ==
  {1, fresh[<<userId, studyInstanceUID>>]} \cap 1..MaxSessions

\* ViewerState.findOne({ userId, studyInstanceUID, sessionId })
findOne(states, userId, studyInstanceUID, sessionId) ==
  LET found == {d \in states : /\ d.userId = userId
                               /\ d.studyInstanceUID = studyInstanceUID
                               /\ d.sessionId = sessionId}
  IN IF found = {} THEN None ELSE Some(CHOOSE d \in found : TRUE)

\* ViewerState.find({ userId, studyInstanceUID })
findForStudy(states, userId, studyInstanceUID) ==
  {d \in states : d.userId = userId /\ d.studyInstanceUID = studyInstanceUID}

\* document.isModified() after `viewerState.state = state` and
\* `viewerState.autoSaved = autoSaved`: a path is modified unless the value
\* assigned deep-equals the value it had
isModified(doc, state, autoSaved) ==
  \/ ~(state.canonical /\ cast(state) = doc.state)
  \/ autoSaved # doc.autoSaved

preSave_AlwaysIncrements(doc, isNew, modified) == [doc EXCEPT !.version = @ + 1]

\* viewerStateSchema.pre('save')
preSave(doc, isNew, modified) ==
  IF modified /\ ~isNew THEN [doc EXCEPT !.version = @ + 1] ELSE doc

\* document.save(): nothing is written when nothing is modified; otherwise the
\* pre-save hook runs and the timestamps plugin stamps updatedAt
save(doc, isNew, modified, time) ==
  IF ~isNew /\ ~modified THEN doc
  ELSE [preSave(doc, isNew, modified) EXCEPT !.updatedAt = time]

\* viewerStateSchema.statics.cleanupOldStates: of the (user, study), the
\* documents after the first 10 in descending updatedAt order are deleted
cleanupOldStates(states, userId, studyInstanceUID) ==
  LET found == findForStudy(states, userId, studyInstanceUID)
      skipped == {d \in found :
                    Cardinality({e \in found : e.updatedAt > d.updatedAt}) >= KeepLatest}
  IN states \ skipped

SaveRequest(op, userId, studyInstanceUID, sessionId, state, autoSaved, status, stored) ==
  [op |-> op, userId |-> userId, studyInstanceUID |-> studyInstanceUID,
   sessionId |-> sessionId, state |-> state, autoSaved |-> autoSaved,
   status |-> status,
   prior |-> findOne(viewerStates, userId, studyInstanceUID, sessionId),
   stored |-> stored]

UseSessionId(userId, studyInstanceUID, sessionId) ==
  fresh' = [fresh EXCEPT ![<<userId, studyInstanceUID>>] =
              IF sessionId = @ THEN @ + 1 ELSE @]

\* POST /viewer-state/save
SaveState(userId, studyInstanceUID, sessionId, state, autoSaved) ==
  IF state = None
  THEN /\ UNCHANGED <<viewerStates, now, fresh>>
       /\ lastSave' = Some(SaveRequest("save", userId, studyInstanceUID, sessionId,
                                       state, autoSaved, 400, viewerStates))
  ELSE LET existing == findOne(viewerStates, userId, studyInstanceUID, sessionId)
           viewerState ==
             IF existing # None
             THEN save([existing[1] EXCEPT !.state = cast(state[1]),
                                           !.autoSaved = autoSaved],
                       FALSE, isModified(existing[1], state[1], autoSaved), now + 1)
             ELSE save([userId |-> userId,
                        studyInstanceUID |-> studyInstanceUID,
                        sessionId |-> sessionId,
                        state |-> cast(state[1]),
                        autoSaved |-> autoSaved,
                        version |-> 1,
                        updatedAt |-> now + 1],
                       TRUE, TRUE, now + 1)
           stored == (viewerStates \ {d \in viewerStates : existing = Some(d)})
                       \cup {viewerState}
       IN /\ viewerStates' = cleanupOldStates(stored, userId, studyInstanceUID)
          /\ now' = now + 1
          /\ UseSessionId(userId, studyInstanceUID, sessionId)
          /\ lastSave' = Some(SaveRequest("save", userId, studyInstanceUID, sessionId,
                                          state, autoSaved, 200, stored))

\* POST /viewer-state/auto-save
AutoSaveState(userId, studyInstanceUID, sessionId, state) ==
  IF state = None
  THEN /\ UNCHANGED <<viewerStates, now, fresh>>
       /\ lastSave' = Some(SaveRequest("auto-save", userId, studyInstanceUID, sessionId,
                                       state, TRUE, 400, viewerStates))
  ELSE LET existing == findOne(viewerStates, userId, studyInstanceUID, sessionId)
           result ==
             IF existing # None
             THEN [existing[1] EXCEPT !.state = cast(state[1]),
                                      !.autoSaved = TRUE,
                                      !.version = @ + 1,
                                      !.updatedAt = now + 1]
             ELSE [userId |-> userId,
                   studyInstanceUID |-> studyInstanceUID,
                   sessionId |-> sessionId,
                   state |-> cast(state[1]),
                   autoSaved |-> TRUE,
                   version |-> 1,
                   updatedAt |-> now + 1]
           stored == (viewerStates \ {d \in viewerStates : existing = Some(d)})
                       \cup {result}
       IN /\ viewerStates' = stored
          /\ now' = now + 1
          /\ UseSessionId(userId, studyInstanceUID, sessionId)
          /\ lastSave' = Some(SaveRequest("auto-save", userId, studyInstanceUID, sessionId,
                                          state, TRUE, 200, stored))

otherThanViewerStates == <<integration, activePresetId, activeTooth, subscribed,
                           measurements, pending, chainUpdates, lastRun,
                           annotations, disk, uploaded, lastReq,
                           requests, listeners,
    exportPayload,
    activeTool,
    drawnWith,
    accessToken,
    refreshToken,
    refreshPromise,
    calls,
    currentUser,
    isAutoSaveEnabled,
    autoSaveInterval,
    autoSaveDelay,
    lastSavedState,
    currentStudyUID,
    currentSessionId,
    autoSaves>>

\* alice saves the next session of study-1 for the first time
SaveNewSession ==
  /\ fresh[<<"alice", "study-1">>] <= MaxSessions
  /\ SaveState("alice", "study-1", fresh[<<"alice", "study-1">>],
               Some(InitialState), FALSE)
  /\ UNCHANGED extras
  /\ UNCHANGED otherThanViewerStates

Save ==
  /\ extras < MaxExtra
  /\ \E userId \in Users, studyInstanceUID \in Studies :
       \E sessionId \in SessionIds(userId, studyInstanceUID),
          state \in {None} \cup {Some(st) : st \in States}, autoSaved \in BOOLEAN :
          SaveState(userId, studyInstanceUID, sessionId, state, autoSaved)
  /\ extras' = extras + 1
  /\ UNCHANGED otherThanViewerStates

AutoSave ==
  /\ extras < MaxExtra
  /\ \E userId \in Users, studyInstanceUID \in Studies :
       \E sessionId \in SessionIds(userId, studyInstanceUID),
          state \in {None} \cup {Some(st) : st \in States} :
          AutoSaveState(userId, studyInstanceUID, sessionId, state)
  /\ extras' = extras + 1
  /\ UNCHANGED otherThanViewerStates

NextViewerState == SaveNewSession \/ Save \/ AutoSave

(***************************************************************************)
(*                      THE DENTAL MEASUREMENTS PANEL                      *)
(***************************************************************************)

\* the metadata of the documented export example; dentalValue is 15.5, held
\* in tenths
ExampleMetadata ==
  [NoMetadata EXCEPT !.dentalPresetLabel = Some("PA length"),
                     !.dentalValue = Some(155),
                     !.dentalUnit = Some("mm"),
                     !.dentalTooth = Some([system |-> "FDI", value |-> "11"]),
                     !.dentalPresetId = Some("periapical-length")]

\* metadata of the measurements the panel is shown
PanelMetadata == IncomingMetadata \cup {ExampleMetadata}

\* values of the preset filter of the panel
PresetFilters == {"all", "periapical-length", "canal-angle"}

\* the measurementFilter passed to useMeasurements
measurementFilter(measurement) ==
  \/ Truthy(measurement.metadata.dentalPresetId)
  \/ TestIgnoreCase("pa length", measurement.label)
  \/ TestIgnoreCase("canal angle", measurement.label)
  \/ TestIgnoreCase("crown width", measurement.label)
  \/ TestIgnoreCase("root length", measurement.label)
  \/ MatchToothNotation("fdi", measurement.label) # None
  \/ MatchToothNotation("universal", measurement.label) # None

\* filteredMeasurements
presetFilterPasses(measurement, presetFilter) ==
  \/ presetFilter = "all"
  \/ measurement.metadata.dentalPresetId = Some(presetFilter)
  \/ /\ PresetById(presetFilter) # None
     /\ TestIgnoreCase(toLowerCase(PresetById(presetFilter)[1].label), measurement.label)

RECURSIVE Select(_, _)
\* Array.prototype.filter with the two filters of the panel
Select(list, presetFilter) ==
  IF list = <<>> THEN <<>>
  ELSE (IF measurementFilter(Head(list)) /\ presetFilterPasses(Head(list), presetFilter)
        THEN <<Head(list)>> ELSE <<>>) \o Select(Tail(list), presetFilter)

\* a || b on a string that may be undefined and a label
OrLabel(a, label) == IF Truthy(a) THEN <<a[1]>> ELSE label

exportOne_SourceFromLabel(measurement) ==
  [uid |-> measurement.uid,
   label |-> OrLabel(measurement.metadata.dentalPresetLabel, measurement.label),
   value |-> measurement.metadata.dentalValue,
   unit |-> measurement.metadata.dentalUnit,
   tooth |-> measurement.metadata.dentalTooth,
   source |-> measurement.metadata.dentalPresetLabel]

\* the object handleExport maps one measurement to; x ?? null is None for an
\* absent x
exportOne(measurement) ==
  [uid |-> measurement.uid,
   label |-> OrLabel(measurement.metadata.dentalPresetLabel, measurement.label),
   value |-> measurement.metadata.dentalValue,
   unit |-> measurement.metadata.dentalUnit,
   tooth |-> measurement.metadata.dentalTooth,
   source |-> measurement.metadata.dentalPresetId]

\* the measurements listed by the panel (with one measurement the sort order
\* makes no difference)
sortedMeasurements(presetFilter) ==
  Select(ListOf(measurements, DOMAIN measurements), presetFilter)

handleExport(presetFilter) ==
  LET listed == sortedMeasurements(presetFilter)
  IN exportPayload' = Some([listed |-> listed,
                            payload |-> [i \in 1..Len(listed) |-> exportOne(listed[i])]])

otherThanPanel == <<integration, activePresetId, activeTooth, subscribed,
                    measurements, pending, chainUpdates, lastRun, listeners,
                    annotations, disk, uploaded, lastReq,
                    viewerStates, now, fresh, extras, lastSave, requests,
    activeTool,
    drawnWith,
    accessToken,
    refreshToken,
    refreshPromise,
    calls,
    currentUser,
    isAutoSaveEnabled,
    autoSaveInterval,
    autoSaveDelay,
    lastSavedState,
    currentStudyUID,
    currentSessionId,
    autoSaves>>

PanelMeasurementAdded ==
  /\ \E uid \in UIDs, label \in IncomingLabels,
        metadata \in PanelMetadata, geom \in Geometries :
          HostAddMeasurement(uid, label, metadata, geom)
  /\ UNCHANGED backendVars

Export ==
  /\ \E presetFilter \in PresetFilters : handleExport(presetFilter)
  /\ UNCHANGED otherThanPanel

NextPanel ==
  \/ PanelMeasurementAdded
  \/ MeasurementsCleared
  \/ DeliverNotification
  \/ Export

(***************************************************************************)
(*                  THE TOOLBAR AND THE MEASUREMENT TOOLS                  *)
(***************************************************************************)

\* the measurement tools of the dental toolbar
ToolNames == {"Length", "Angle"}

\* what a tool puts into the measurement it creates
GeometryOf(toolName) == IF toolName = "Angle" THEN GeomAngle42 ELSE GeomLength15

RECURSIVE ToolAfter(_, _)
\* the host runs the commands: setToolActive makes the named tool the
\* active one
ToolAfter(tool, commands) ==
  IF commands = <<>> THEN tool
  ELSE ToolAfter(IF Head(commands).commandName = "setToolActive"
                 THEN Some(Head(commands).options.toolName)
                 ELSE tool,
                 Tail(commands))

otherThanTools == <<annotations, disk, uploaded, lastReq,
                    viewerStates, now, fresh, extras, lastSave, requests,
                    exportPayload,
    accessToken,
    refreshToken,
    refreshPromise,
    calls,
    currentUser,
    isAutoSaveEnabled,
    autoSaveInterval,
    autoSaveDelay,
    lastSavedState,
    currentStudyUID,
    currentSessionId,
    autoSaves>>

\* a preset button of the header: selectDentalMeasurementPreset, and the
\* command it runs
PresetSelected ==
  /\ \E presetId \in SelectableIds : selectDentalMeasurementPreset(presetId)
  /\ activeTool' = ToolAfter(activeTool, lastRun'.commands)
  /\ UNCHANGED <<drawnWith, otherThanTools>>

\* the Length or the Angle button of the toolbar: setToolActiveToolbar
ToolbarButton ==
  /\ Idle
  /\ \E toolName \in ToolNames : activeTool' = Some(toolName)
  /\ UNCHANGED <<enricherVars, listeners, drawnWith, otherThanTools>>

\* the user draws with the active tool; the host announces the measurement
Draw ==
  /\ activeTool # None
  /\ \E uid \in UIDs :
        /\ HostAddMeasurement(uid, <<>>, NoMetadata, GeometryOf(activeTool[1]))
        /\ drawnWith' = (uid :> activeTool[1]) @@ drawnWith
  /\ UNCHANGED <<activeTool, otherThanTools>>

Erase ==
  /\ HostClearMeasurements
  /\ drawnWith' = <<>>
  /\ UNCHANGED <<activeTool, otherThanTools>>

NextToolbar ==
  \/ Initialize
  \/ Teardown
  \/ SetTooth
  \/ PresetSelected
  \/ ToolbarButton
  \/ Draw
  \/ Erase
  \/ DeliverNotification

(***************************************************************************)
(*             VIEWER-STATE REQUESTS THAT RUN CONCURRENTLY                 *)
(* A handler gives up control at every await: between its findOne, its     *)
(* save and its cleanup the handlers of other requests run.                *)
(***************************************************************************)

\* upper bound of the number of requests in flight together
MaxRequests == 3

RequestIds == 1..MaxRequests

\* the session ids and state objects the concurrent requests name; they are
\* all of one user and one study
RaceSessionIds == {1, 2}
RaceStates == {None, Some([content |-> "layout-a", canonical |-> FALSE]),
                     Some([content |-> "layout-b", canonical |-> FALSE])}

NoRequest == [op |-> "none", sessionId |-> 0, state |-> None, pc |-> "idle",
              found |-> None, viewerState |-> None, wrote |-> None, response |-> None]

Response(status, success, version) ==
  [status |-> status, success |-> success, version |-> version]

duplicateKey_Never(states, doc) == FALSE

\* the unique index { userId, studyInstanceUID, sessionId }: an insert of doc
\* fails with E11000
duplicateKey(states, doc) ==
  \E d \in states : /\ d.userId = doc.userId
                    /\ d.studyInstanceUID = doc.studyInstanceUID
                    /\ d.sessionId = doc.sessionId

\* a new document of this user and study; _id is what makes the document
\* itself, whatever is later written into it
NewViewerState(id, sessionId, state, autoSaved, time) ==
  [_id |-> id, userId |-> "alice", studyInstanceUID |-> "study-1",
   sessionId |-> sessionId, state |-> cast(state), autoSaved |-> autoSaved,
   version |-> 1, updatedAt |-> time]

\* updateOne({ _id }, { $set: the modified paths }): document.save() of a
\* document that was loaded
updateById(states, viewerState) ==
  {IF d._id = viewerState._id
   THEN [d EXCEPT !.state = viewerState.state, !.autoSaved = viewerState.autoSaved,
                  !.version = viewerState.version, !.updatedAt = viewerState.updatedAt]
   ELSE d : d \in states}

\* POST /save up to its first await: validation, then findOne
SaveFindOne(r, sessionId, state) ==
  /\ requests[r].pc = "idle"
  /\ requests' = [requests EXCEPT ![r] =
       IF state = None
       THEN [NoRequest EXCEPT !.op = "save", !.sessionId = sessionId, !.pc = "done",
                              !.response = Some(Response(400, FALSE, None))]
       ELSE [NoRequest EXCEPT !.op = "save", !.sessionId = sessionId, !.state = state,
                              !.pc = "save",
                              !.found = findOne(viewerStates, "alice", "study-1", sessionId)]]
  /\ UNCHANGED <<viewerStates, now>>

\* await viewerState.save(), and the catch block of POST /save
SaveDocument(r) ==
  LET q == requests[r]
  IN /\ q.op = "save" /\ q.pc = "save"
     /\ IF q.found = None
        THEN LET viewerState == save(NewViewerState(r, q.sessionId, q.state[1], FALSE, now + 1),
                                     TRUE, TRUE, now + 1)
             IN IF duplicateKey(viewerStates, viewerState)
                THEN /\ requests' = [requests EXCEPT ![r].pc = "done",
                                        ![r].response = Some(Response(409, FALSE, None))]
                     /\ UNCHANGED <<viewerStates, now>>
                ELSE /\ viewerStates' = viewerStates \cup {viewerState}
                     /\ now' = now + 1
                     /\ requests' = [requests EXCEPT ![r].pc = "cleanup",
                                        ![r].viewerState = Some(viewerState),
                                        ![r].wrote = Some(viewerState._id)]
        ELSE LET modified == isModified(q.found[1], q.state[1], FALSE)
                 viewerState == save([q.found[1] EXCEPT !.state = cast(q.state[1]),
                                                        !.autoSaved = FALSE],
                                     FALSE, modified, now + 1)
             IN IF ~modified
                THEN /\ requests' = [requests EXCEPT ![r].pc = "cleanup",
                                        ![r].viewerState = Some(viewerState)]
                     /\ UNCHANGED <<viewerStates, now>>
                ELSE IF \A d \in viewerStates : d._id # viewerState._id
                THEN /\ requests' = [requests EXCEPT ![r].pc = "done",
                                        ![r].response = Some(Response(500, FALSE, None))]
                     /\ UNCHANGED <<viewerStates, now>>
                ELSE /\ viewerStates' = updateById(viewerStates, viewerState)
                     /\ now' = now + 1
                     /\ requests' = [requests EXCEPT ![r].pc = "cleanup",
                                        ![r].viewerState = Some(viewerState),
                                        ![r].wrote = Some(viewerState._id)]

\* await ViewerState.cleanupOldStates(...), then the response
SaveCleanup(r) ==
  LET q == requests[r]
  IN /\ q.op = "save" /\ q.pc = "cleanup"
     /\ viewerStates' = cleanupOldStates(viewerStates, "alice", "study-1")
     /\ requests' = [requests EXCEPT ![r].pc = "done",
                        ![r].response = Some(Response(200, TRUE, Some(q.viewerState[1].version)))]
     /\ UNCHANGED now

catchAutoSaveError_ReportsSuccess(error) == Response(200, TRUE, None)

\* the catch block of POST /auto-save
catchAutoSaveError(error) == Response(200, FALSE, None)

\* findOneAndUpdate on a document that matches: one atomic update
applyAutoSave(states, d, state, time) ==
  (states \ {d}) \cup {[d EXCEPT !.state = cast(state), !.autoSaved = TRUE,
                                 !.version = @ + 1, !.updatedAt = time]}

\* POST /auto-save: the presence check, then findOneAndUpdate(..., { upsert })
\* looks for the document and updates it if there is one
AutoSaveFindOne(r, sessionId, state) ==
  /\ requests[r].pc = "idle"
  /\ LET found == findOne(viewerStates, "alice", "study-1", sessionId)
     IN IF state = None
        THEN /\ requests' = [requests EXCEPT ![r] =
                  [NoRequest EXCEPT !.op = "auto-save", !.sessionId = sessionId,
                                    !.pc = "done",
                                    !.response = Some(Response(400, FALSE, None))]]
             /\ UNCHANGED <<viewerStates, now>>
        ELSE IF found # None
        THEN /\ viewerStates' = applyAutoSave(viewerStates, found[1], state[1], now + 1)
             /\ now' = now + 1
             /\ requests' = [requests EXCEPT ![r] =
                  [NoRequest EXCEPT !.op = "auto-save", !.sessionId = sessionId,
                                    !.state = state, !.pc = "done", !.found = found,
                                    !.wrote = Some(found[1]._id),
                                    !.response = Some(Response(200, TRUE,
                                                      Some(found[1].version + 1)))]]
        ELSE /\ requests' = [requests EXCEPT ![r] =
                  [NoRequest EXCEPT !.op = "auto-save", !.sessionId = sessionId,
                                    !.state = state, !.pc = "upsert"]]
             /\ UNCHANGED <<viewerStates, now>>

\* the insert of the upsert.  If another request has stored the triple in
\* between, the server either runs the upsert again as an update or fails it
\* with E11000, which the catch block answers.
AutoSaveUpsert(r, retried) ==
  LET q == requests[r]
      inserted == NewViewerState(r, q.sessionId, q.state[1], TRUE, now + 1)
      found == findOne(viewerStates, "alice", "study-1", q.sessionId)
  IN /\ q.op = "auto-save" /\ q.pc = "upsert"
     /\ IF ~duplicateKey(viewerStates, inserted)
        THEN /\ viewerStates' = viewerStates \cup {inserted}
             /\ now' = now + 1
             /\ requests' = [requests EXCEPT ![r].pc = "done",
                                ![r].wrote = Some(inserted._id),
                                ![r].response = Some(Response(200, TRUE, Some(1)))]
        ELSE IF retried
        THEN /\ viewerStates' = applyAutoSave(viewerStates, found[1], q.state[1], now + 1)
             /\ now' = now + 1
             /\ requests' = [requests EXCEPT ![r].pc = "done",
                                ![r].wrote = Some(found[1]._id),
                                ![r].response = Some(Response(200, TRUE,
                                                  Some(found[1].version + 1)))]
        ELSE /\ requests' = [requests EXCEPT ![r].pc = "done",
                                ![r].response = Some(catchAutoSaveError("E11000"))]
             /\ UNCHANGED <<viewerStates, now>>

otherThanRequests == <<integration, activePresetId, activeTooth, subscribed,
                       measurements, pending, chainUpdates, lastRun, listeners,
                       annotations, disk, uploaded, lastReq,
                       fresh, extras, lastSave,
    exportPayload,
    activeTool,
    drawnWith,
    accessToken,
    refreshToken,
    refreshPromise,
    calls,
    currentUser,
    isAutoSaveEnabled,
    autoSaveInterval,
    autoSaveDelay,
    lastSavedState,
    currentStudyUID,
    currentSessionId,
    autoSaves>>

SaveArrives ==
  /\ \E r \in RequestIds, sessionId \in RaceSessionIds, state \in RaceStates :
        SaveFindOne(r, sessionId, state)
  /\ UNCHANGED otherThanRequests

SaveWrites == (\E r \in RequestIds : SaveDocument(r)) /\ UNCHANGED otherThanRequests

SaveCleansUp == (\E r \in RequestIds : SaveCleanup(r)) /\ UNCHANGED otherThanRequests

AutoSaveArrives ==
  /\ \E r \in RequestIds, sessionId \in RaceSessionIds, state \in RaceStates :
        AutoSaveFindOne(r, sessionId, state)
  /\ UNCHANGED otherThanRequests

AutoSaveInserts ==
  /\ \E r \in RequestIds, retried \in BOOLEAN : AutoSaveUpsert(r, retried)
  /\ UNCHANGED otherThanRequests

NextConcurrent ==
  SaveArrives \/ SaveWrites \/ SaveCleansUp \/ AutoSaveArrives \/ AutoSaveInserts

(***************************************************************************)
(*                          THE API CLIENT                                 *)
(* Every makeRequest invocation is a call with a position: waiting for the *)
(* server's answer ("fetch"), awaiting the refresh promise                 *)
(* ("awaitRefresh"), waiting for the answer to its retry ("retry"), or     *)
(* settled ("resolved" / "rejected").  Promise continuations run as        *)
(* microtasks, before the next server answer is handled, so a call that    *)
(* settles runs the continuations that await it in the same step.          *)
(***************************************************************************)

\* makeRequest invocations the model follows
MaxCalls == 4
CallIds == 1..MaxCalls

\* what the server can answer to a fetch: response.ok, a 401 whose error
\* text includes 'expired', and every other failure (a non-ok status, or
\* fetch / response.json() rejecting)
ServerAnswers == {"ok", "expired", "failed"}

NoCall == [kind |-> "none", pc |-> "unused", awaits |-> None]

\* the tokens a successful login or refresh answer carries
AuthTokens(t) == [accessToken |-> t, refreshToken |-> t]

saveTokensToStorage(tokens) ==
  [accessToken |-> Some(tokens.accessToken), refreshToken |-> Some(tokens.refreshToken)]

clearTokensFromStorage == [accessToken |-> None, refreshToken |-> None]

currentTokens == [accessToken |-> accessToken, refreshToken |-> refreshToken]

\* the least call id not yet used
UnusedCalls == {c \in CallIds : calls[c].pc = "unused"}
nextCall == CHOOSE c \in UnusedCalls : \A d \in UnusedCalls : c <= d

\* the calls whose makeRequest awaits the promise chain of refresh call r
awaiting(r) == {w \in CallIds : calls[w].pc = "awaitRefresh" /\ calls[w].awaits = Some(r)}

\* the tokens after call c settles with the outcome: the .then / .catch of
\* refreshAccessToken, the body of login, the finally of logout; cleared says
\* that makeRequest's catch (refreshError) ran clearTokensFromStorage first
tokensAfterSettle(c, outcome, cleared) ==
  CASE calls[c].kind = "refresh" /\ outcome = "resolved" ->
         saveTokensToStorage(AuthTokens("refreshed"))
    [] calls[c].kind = "refresh" /\ outcome = "rejected" -> clearTokensFromStorage
    [] calls[c].kind = "login" /\ outcome = "resolved" ->
         saveTokensToStorage(AuthTokens("login"))
    [] calls[c].kind = "logout" -> clearTokensFromStorage
    [] OTHER -> IF cleared THEN clearTokensFromStorage ELSE currentTokens

\* call c resolves or rejects; when c is the refresh request, refreshPromise
\* is reset and every makeRequest awaiting it goes on: to its retry after a
\* resolved refresh, to its catch (refreshError) after a rejected one
Settle(c, outcome, cleared) ==
  LET tokens == tokensAfterSettle(c, outcome, cleared)
      isRefresh == calls[c].kind = "refresh"
  IN /\ accessToken' = tokens.accessToken
     /\ refreshToken' = tokens.refreshToken
     /\ refreshPromise' = IF isRefresh THEN None ELSE refreshPromise
     /\ calls' = [w \in CallIds |->
                    IF w = c THEN [calls[c] EXCEPT !.pc = outcome, !.awaits = None]
                    ELSE IF isRefresh /\ w \in awaiting(c)
                      THEN [calls[w] EXCEPT
                              !.pc = IF outcome = "resolved" THEN "retry" ELSE "rejected",
                              !.awaits = None]
                      ELSE calls[w]]

\* refreshAccessToken, called by the makeRequest of call c
refreshAccessToken(c) ==
  IF refreshToken = None
    THEN Settle(c, "rejected", TRUE)
    ELSE IF refreshPromise # None
      THEN \* a refresh is under way: return its promise
           /\ calls' = [calls EXCEPT ![c].pc = "awaitRefresh", ![c].awaits = refreshPromise]
           /\ UNCHANGED <<accessToken, refreshToken, refreshPromise>>
      ELSE \* this.refreshPromise = this.makeRequest('/auth/refresh', ...)
           /\ UnusedCalls \ {c} # {}
           /\ LET r == nextCall
              IN /\ calls' = [calls EXCEPT
                                ![c].pc = "awaitRefresh", ![c].awaits = Some(r),
                                ![r] = [kind |-> "refresh", pc |-> "fetch", awaits |-> None]]
                 /\ refreshPromise' = Some(r)
           /\ UNCHANGED <<accessToken, refreshToken>>

\* makeRequest up to its first await: the request is sent
makeRequest(kind) ==
  /\ UnusedCalls # {}
  /\ calls' = [calls EXCEPT ![nextCall] = [kind |-> kind, pc |-> "fetch", awaits |-> None]]
  /\ UNCHANGED <<accessToken, refreshToken, refreshPromise>>

\* makeRequest after `await fetch`: the server answered call c
makeRequestAnswered(c, answer) ==
  /\ calls[c].pc = "fetch"
  /\ IF answer = "ok"
       THEN Settle(c, "resolved", FALSE)
       ELSE IF answer = "expired" /\ refreshToken # None
         THEN refreshAccessToken(c)
         ELSE Settle(c, "rejected", FALSE)

\* makeRequest after the retry's `await fetch`: any answer that is not ok
\* throws into catch (refreshError)
makeRequestRetried(c, answer) ==
  /\ calls[c].pc = "retry"
  /\ IF answer = "ok"
       THEN Settle(c, "resolved", FALSE)
       ELSE Settle(c, "rejected", TRUE)

otherThanApi == <<integration, activePresetId, activeTooth, subscribed,
                  measurements, pending, chainUpdates, lastRun, listeners,
                  annotations, disk, uploaded, lastReq,
                  viewerStates, now, fresh, extras, lastSave, requests,
                  exportPayload, activeTool, drawnWith,
    currentUser,
    isAutoSaveEnabled,
    autoSaveInterval,
    autoSaveDelay,
    lastSavedState,
    currentStudyUID,
    currentSessionId,
    autoSaves>>

\* any API method other than login and logout
ApiRequest ==
  /\ makeRequest("request")
  /\ UNCHANGED otherThanApi

Login ==
  /\ makeRequest("login")
  /\ UNCHANGED otherThanApi

Logout ==
  /\ makeRequest("logout")
  /\ UNCHANGED otherThanApi

AnswerTo(c) ==
  /\ \E answer \in ServerAnswers : makeRequestAnswered(c, answer)
  /\ UNCHANGED otherThanApi

RetryAnswerTo(c) ==
  /\ \E answer \in ServerAnswers : makeRequestRetried(c, answer)
  /\ UNCHANGED otherThanApi

ServerAnswer ==
  /\ \E c \in CallIds, answer \in ServerAnswers : makeRequestAnswered(c, answer)
  /\ UNCHANGED otherThanApi

RetryAnswer ==
  /\ \E c \in CallIds, answer \in ServerAnswers : makeRequestRetried(c, answer)
  /\ UNCHANGED otherThanApi

NextApiClient == ApiRequest \/ Login \/ Logout \/ ServerAnswer \/ RetryAnswer

\* the server answers every request it was sent
ServerAnswersEveryFetch ==
  \A c \in CallIds : WF_vars(AnswerTo(c)) /\ WF_vars(RetryAnswerTo(c))

(***************************************************************************)
(*                         THE STATE SERVICE                               *)
(* performAutoSave runs up to its await (the request is issued) in the     *)
(* step of the timer that calls it, and from its await on in the step of   *)
(* the server's answer.                                                    *)
(***************************************************************************)

\* auto-save requests the model follows
MaxAutoSaves == 2

\* JSON.stringify of the value getCurrentViewerState returns: the same
\* literal on every call
getCurrentViewerState == "mock-state"

\* the states a caller hands to saveViewerState(studyInstanceUID, state?)
GivenStates == {None, Some("given-state")}

\* authService.isAuthenticated()
isAuthenticated == currentUser # None /\ accessToken # None

\* what POST /viewer-state/auto-save answers: the upsert succeeded, a field
\* was missing, the auth middleware refused, or the catch block answered
AutoSaveResponses ==
  {Response(200, TRUE, Some(1)), Response(400, FALSE, None),
   Response(401, FALSE, None), catchAutoSaveError("findOneAndUpdate failed")}

\* makeRequest: response.ok resolves with the body, anything else rejects
makeRequestOutcome(response) ==
  IF response.status \in 200..299 THEN "resolved" ELSE "rejected"

\* apiClient.autoSaveViewerState: makeRequest's outcome, unchanged
autoSaveViewerState(response) == makeRequestOutcome(response)

AutoSaveRequest(state) ==
  [state |-> state, enabled |-> isAutoSaveEnabled, pc |-> "sent",
   response |-> None, recorded |-> FALSE]

\* performAutoSave up to `await apiClient.autoSaveViewerState(...)`
performAutoSave ==
  IF currentStudyUID = None \/ currentSessionId = None \/ ~isAuthenticated
    THEN UNCHANGED autoSaves
    ELSE IF Some(getCurrentViewerState) = lastSavedState
      THEN UNCHANGED autoSaves
      ELSE /\ Len(autoSaves) < MaxAutoSaves
           /\ autoSaves' = Append(autoSaves, AutoSaveRequest(getCurrentViewerState))

\* performAutoSave from its await on: the request i is answered
performAutoSaveSettles(i, response) ==
  /\ autoSaves[i].pc = "sent"
  /\ IF autoSaveViewerState(response) = "resolved"
       THEN /\ lastSavedState' = Some(autoSaves[i].state)
            /\ autoSaves' = [autoSaves EXCEPT ![i].pc = "done",
                                              ![i].response = Some(response),
                                              ![i].recorded = TRUE]
       ELSE /\ autoSaves' = [autoSaves EXCEPT ![i].pc = "done",
                                              ![i].response = Some(response)]
            /\ UNCHANGED lastSavedState

\* the 30-second interval fires
intervalFires ==
  /\ autoSaveInterval
  /\ performAutoSave
  /\ UNCHANGED <<currentUser, accessToken, refreshToken, isAutoSaveEnabled,
                 autoSaveInterval, autoSaveDelay, lastSavedState,
                 currentStudyUID, currentSessionId>>

\* the 2-second timeout fires; the handle stays in autoSaveDelay
delayFires ==
  /\ autoSaveDelay = Some("pending")
  /\ autoSaveDelay' = Some("fired")
  /\ performAutoSave
  /\ UNCHANGED <<currentUser, accessToken, refreshToken, isAutoSaveEnabled,
                 autoSaveInterval, lastSavedState,
                 currentStudyUID, currentSessionId>>

\* onStateChange: clearTimeout of the previous handle, then a new timeout
onStateChange ==
  /\ IF ~isAutoSaveEnabled \/ ~isAuthenticated
       THEN UNCHANGED autoSaveDelay
       ELSE autoSaveDelay' = Some("pending")
  /\ UNCHANGED <<currentUser, accessToken, refreshToken, isAutoSaveEnabled,
                 autoSaveInterval, lastSavedState,
                 currentStudyUID, currentSessionId, autoSaves>>

setAutoSaveEnabled(enabled) ==
  /\ isAutoSaveEnabled' = enabled
  /\ autoSaveInterval' = IF enabled /\ ~autoSaveInterval THEN TRUE
                         ELSE IF ~enabled /\ autoSaveInterval THEN FALSE
                         ELSE autoSaveInterval
  /\ UNCHANGED <<currentUser, accessToken, refreshToken, autoSaveDelay,
                 lastSavedState, currentStudyUID, currentSessionId, autoSaves>>

\* initializeForStudy: a generated session id, replaced by the session id of
\* the saved state when loadViewerState finds one
initializeForStudy(studyInstanceUID, savedState) ==
  /\ currentStudyUID' = Some(studyInstanceUID)
  /\ currentSessionId' = IF savedState /\ isAuthenticated
                           THEN Some("saved-session") ELSE Some("generated-session")
  /\ lastSavedState' = None
  /\ UNCHANGED <<currentUser, accessToken, refreshToken, isAutoSaveEnabled,
                 autoSaveInterval, autoSaveDelay, autoSaves>>

\* saveViewerState: POST /viewer-state answered; persisted is response.ok
saveViewerState(studyInstanceUID, state, persisted) ==
  /\ isAuthenticated
  /\ IF persisted
       THEN /\ lastSavedState' = IF state = None THEN Some(getCurrentViewerState) ELSE state
            /\ currentStudyUID' = Some(studyInstanceUID)
            /\ currentSessionId' = IF currentSessionId = None
                                     THEN Some("generated-session") ELSE currentSessionId
       ELSE UNCHANGED <<lastSavedState, currentStudyUID, currentSessionId>>
  /\ UNCHANGED <<currentUser, accessToken, refreshToken, isAutoSaveEnabled,
                 autoSaveInterval, autoSaveDelay, autoSaves>>

cleanup ==
  /\ autoSaveInterval' = FALSE
  /\ autoSaveDelay' = None
  /\ currentStudyUID' = None
  /\ currentSessionId' = None
  /\ lastSavedState' = None
  /\ UNCHANGED <<currentUser, accessToken, refreshToken, isAutoSaveEnabled, autoSaves>>

\* authService.login once apiClient.login resolved: tokens saved, user set
login ==
  /\ currentUser' = Some("alice")
  /\ accessToken' = saveTokensToStorage(AuthTokens("login")).accessToken
  /\ refreshToken' = saveTokensToStorage(AuthTokens("login")).refreshToken
  /\ UNCHANGED <<isAutoSaveEnabled, autoSaveInterval, autoSaveDelay, lastSavedState,
                 currentStudyUID, currentSessionId, autoSaves>>

\* authService.logout: apiClient.logout clears the tokens, then the user
logout ==
  /\ currentUser' = None
  /\ accessToken' = clearTokensFromStorage.accessToken
  /\ refreshToken' = clearTokensFromStorage.refreshToken
  /\ UNCHANGED <<isAutoSaveEnabled, autoSaveInterval, autoSaveDelay, lastSavedState,
                 currentStudyUID, currentSessionId, autoSaves>>

otherThanStateService ==
  <<integration, activePresetId, activeTooth, subscribed,
    measurements, pending, chainUpdates, lastRun, listeners,
    annotations, disk, uploaded, lastReq,
    viewerStates, now, fresh, extras, lastSave, requests,
    exportPayload, activeTool, drawnWith, refreshPromise, calls>>

SignIn ==
  /\ login
  /\ UNCHANGED otherThanStateService

SignOut ==
  /\ logout
  /\ UNCHANGED otherThanStateService

InitializeForStudy ==
  /\ \E savedState \in BOOLEAN : initializeForStudy("study-1", savedState)
  /\ UNCHANGED otherThanStateService

StateChanged ==
  /\ onStateChange
  /\ UNCHANGED otherThanStateService

SetAutoSaveEnabled ==
  /\ \E enabled \in BOOLEAN : setAutoSaveEnabled(enabled)
  /\ UNCHANGED otherThanStateService

IntervalFires ==
  /\ intervalFires
  /\ UNCHANGED otherThanStateService

DelayFires ==
  /\ delayFires
  /\ UNCHANGED otherThanStateService

AutoSaveSettles ==
  /\ \E i \in DOMAIN autoSaves, response \in AutoSaveResponses :
        performAutoSaveSettles(i, response)
  /\ UNCHANGED <<currentUser, accessToken, refreshToken, isAutoSaveEnabled,
                 autoSaveInterval, autoSaveDelay, currentStudyUID, currentSessionId>>
  /\ UNCHANGED otherThanStateService

ManualSave ==
  /\ \E state \in GivenStates, persisted \in BOOLEAN :
        saveViewerState("study-1", state, persisted)
  /\ UNCHANGED otherThanStateService

Cleanup ==
  /\ cleanup
  /\ UNCHANGED otherThanStateService

NextStateService ==
  SignIn \/ SignOut \/ InitializeForStudy \/ StateChanged \/ SetAutoSaveEnabled
    \/ IntervalFires \/ DelayFires \/ AutoSaveSettles \/ ManualSave \/ Cleanup

InitEnricher ==
  /\ integration = None
  /\ activePresetId = None
  /\ activeTooth = None
  /\ subscribed = FALSE
  /\ measurements = <<>>
  /\ pending = <<>>
  /\ chainUpdates = 0
  /\ lastRun = NoRun
  /\ listeners = 0

InitAnnotations ==
  /\ annotations = <<>>
  /\ disk = {}
  /\ uploaded = <<>>
  /\ lastReq = None

InitViewerState ==
  /\ viewerStates = {}
  /\ now = 0
  /\ fresh = [g \in Users \X Studies |-> 1]
  /\ extras = 0
  /\ lastSave = None
  /\ requests = [r \in RequestIds |-> NoRequest]

InitClient ==
  /\ exportPayload = None
  /\ activeTool = None
  /\ drawnWith = <<>>

\* a browser with nothing in localStorage: loadTokensFromStorage finds no token
InitApiClient ==
  /\ accessToken = None
  /\ refreshToken = None
  /\ refreshPromise = None
  /\ calls = [c \in CallIds |-> NoCall]

\* the singletons as constructed: no user yet, so getUserPreferences() is
\* null, auto-save is enabled and the interval is set
InitStateService ==
  /\ currentUser = None
  /\ isAutoSaveEnabled = TRUE
  /\ autoSaveInterval = TRUE
  /\ autoSaveDelay = None
  /\ lastSavedState = None
  /\ currentStudyUID = None
  /\ currentSessionId = None
  /\ autoSaves = <<>>

Init == InitEnricher /\ InitAnnotations /\ InitViewerState /\ InitClient
          /\ InitApiClient /\ InitStateService

SpecEnricher == Init /\ [][NextEnricher]_vars

SpecAnnotations == Init /\ [][NextAnnotations]_vars

SpecViewerState == Init /\ [][NextViewerState]_vars

SpecConcurrent == Init /\ [][NextConcurrent]_vars

SpecSharing == Init /\ [][NextSharing]_vars

SpecPanel == Init /\ [][NextPanel]_vars

SpecToolbar == Init /\ [][NextToolbar]_vars

SpecApiClient == Init /\ [][NextApiClient]_vars /\ ServerAnswersEveryFetch

SpecStateService == Init /\ [][NextStateService]_vars

Next == NextEnricher \/ NextAnnotations \/ NextViewerState \/ NextConcurrent \/ NextSharing
          \/ NextPanel \/ NextToolbar \/ NextApiClient \/ NextStateService

Spec == Init /\ [][Next]_vars

(***************************************************************************)
(*                     CLAIMS ABOUT THE ENRICHER                           *)
(***************************************************************************)

\* the handler run of the last step was the measurement-added handler, with
\* the manager initialised and a known preset active
AddedUnderKnownPreset ==
  /\ lastRun.op = "added"
  /\ lastRun.ready
  /\ lastRun.preset # None
  /\ PresetById(lastRun.preset[1]) # None

\* m carries preset P, the tooth `tooth` if the measurement `was` carried none,
\* and the label "<P.label> (<system> <value>)" of its own tooth (P.label without)
CarriesPreset(m, P, was, tooth) ==
  /\ m.uid = was.uid
  /\ m.metadata.dentalPresetId = Some(P.id)
  /\ m.metadata.dentalPresetLabel = Some(P.label)
  /\ m.metadata.dentalUnit = Some(P.unit)
  /\ was.metadata.dentalTooth = None => m.metadata.dentalTooth = tooth
  /\ m.label = IF m.metadata.dentalTooth = None
               THEN <<P.label>>
               ELSE <<P.label, " (", m.metadata.dentalTooth[1].system, " ",
                      m.metadata.dentalTooth[1].value, ")">>
  /\ (/\ P.id = "periapical-length"
      /\ tooth = Some([system |-> "FDI", value |-> "11"])
      /\ was.metadata.dentalTooth = None)
     => /\ m.label = <<"PA length", " (", "FDI", " ", "11", ")">>
        /\ m.metadata.dentalPresetId = Some("periapical-length")

\* C1 as stated: with the manager initialised and a known preset P active, a
\* measurement-added event for M always causes an update call for M, and the
\* updated measurement carries P's id, label and unit, the active tooth when M
\* carried none, and the label "<P.label> (<system> <value>)" (P.label without tooth).
C1_AddedAlwaysUpdates ==
  AddedUnderKnownPreset =>
    /\ Len(lastRun.updates) = 1
    /\ CarriesPreset(lastRun.updates[1], PresetById(lastRun.preset[1])[1],
                     lastRun.before[1], lastRun.tooth)

\* C1 as amended: after the measurement-added event, M (as the measurement service
\* holds it) carries P's id, label and unit, the active tooth when it carried none
\* and the label built from P.label and its tooth; the update call that makes it so
\* is issued unless M arrived already carrying exactly these values, and then
\* none is issued.
C1_AddedStampsPreset ==
  AddedUnderKnownPreset =>
    LET was == lastRun.before[1]
        P == PresetById(lastRun.preset[1])[1]
    IN /\ Len(lastRun.updates) <= 1
       /\ lastRun.updates # <<>> =>
            /\ measurements[was.uid] = lastRun.updates[1]
            /\ CarriesPreset(lastRun.updates[1], P, was, lastRun.tooth)
       /\ lastRun.updates = <<>> =>
            /\ measurements[was.uid] = was
            /\ CarriesPreset(was, P, was, lastRun.tooth)

C1_Witness ==
  /\ AddedUnderKnownPreset
  /\ lastRun.preset = Some("periapical-length")
  /\ lastRun.tooth = Some([system |-> "FDI", value |-> "11"])
  /\ lastRun.before[1].metadata = NoMetadata
  /\ Len(lastRun.updates) = 1
  /\ lastRun.updates[1].label = <<"PA length", " (", "FDI", " ", "11", ")">>
  /\ lastRun.updates[1].metadata.dentalPresetId = Some("periapical-length")

\* the six things the idempotency check is about
Enrichment(m) ==
  <<m.metadata.dentalPresetId, m.metadata.dentalPresetLabel, m.metadata.dentalUnit,
    m.metadata.dentalValue, m.metadata.dentalTooth, m.label>>

\* C2: an update call is issued only when the enrichment differs from what the
\* measurement already has in its preset id, preset label, unit, value, tooth or
\* label: re-running the enrichment on an enriched, unchanged measurement issues none.
C2_NoUpdateWhenUnchanged ==
  \A i \in 1..Len(lastRun.updates), j \in 1..Len(lastRun.before) :
     lastRun.updates[i].uid = lastRun.before[j].uid
       => Enrichment(lastRun.updates[i]) # Enrichment(lastRun.before[j])

\* the enrichment ran again on the measurement it had just updated, and issued nothing
C2_Witness ==
  /\ lastRun.op = "updated"
  /\ lastRun.ready
  /\ chainUpdates >= 1
  /\ lastRun.before[1].metadata.dentalPresetId # None
  /\ PresetById(lastRun.before[1].metadata.dentalPresetId[1]) # None
  /\ lastRun.updates = <<>>

\* C3: no infinite update loop.  A delivery consumes one notification and emits
\* one per update call it makes, so a chain goes on only as long as update calls
\* are issued: every chain started by one added event, one updated event or one
\* re-scan issues at most two update calls for a measurement, after which the
\* deliveries that remain issue none and the chain has ended.
C3_NoInfiniteUpdateLoop ==
  /\ chainUpdates <= 2 * Cardinality(UIDs)
  /\ Len(pending) <= Cardinality(UIDs)

\* a re-scan whose update was answered by a second update, after which the chain ended
C3_Witness ==
  /\ pending = <<>>
  /\ chainUpdates = 2
  /\ lastRun.op = "updated"
  /\ lastRun.updates = <<>>

(***************************************************************************)
(*                CLAIMS ABOUT THE ANNOTATIONS BACKEND                     *)
(***************************************************************************)

\* the access table of the specification, read off a stored document: owner,
\* else private excludes all, else the entry of the share list
Granted(doc, user, permission) ==
  \/ doc.userId.oid = user
  \/ /\ ~doc.isPrivate
     /\ \E i \in 1..Len(doc.sharedWith) :
           /\ doc.sharedWith[i].userId.oid = user
           /\ (permission = "read" \/ doc.sharedWith[i].permission = "write")

HasGrant(doc, user, permission) ==
  \E i \in 1..Len(doc.sharedWith) :
     doc.sharedWith[i].userId.oid = user /\ doc.sharedWith[i].permission = permission

\* a well-formed GET or PUT that found its annotation
Accessed(r) == r.op \in {"get", "put"} /\ r.valid /\ r.doc # None

\* C4 (as stated): the access decision taken for user U and permission p is
\* "granted" exactly when U is the owner, or the annotation is not private and
\* its share list has an entry for U that is enough for p.  GET asks for read,
\* PUT for write; a denied request is answered 403.
C4_AccessDecisionFollowsTable ==
  lastReq # None /\ Accessed(lastReq[1]) =>
    LET r == lastReq[1]
    IN (r.status # 403) <=> Granted(r.doc[1], r.user, IF r.op = "get" THEN "read" ELSE "write")

\* C5 (as stated): for a private annotation of A, B without a grant is refused
\* (403); with a read grant B's GET succeeds and B's PUT fails; with a write
\* grant B's GET and PUT both succeed.
C5_GrantsOpenPrivate ==
  lastReq # None /\ Accessed(lastReq[1]) =>
    LET r == lastReq[1]
        doc == r.doc[1]
    IN doc.isPrivate /\ doc.userId.oid # r.user =>
         IF HasGrant(doc, r.user, "write") THEN r.status = 200
         ELSE IF HasGrant(doc, r.user, "read") THEN (r.op = "get" <=> r.status = 200)
         ELSE r.status = 403

\* C5 (amended): a private annotation of A refuses B's GET and B's well-formed
\* PUT with 403 whether B holds no grant, a read grant or a write grant; once
\* the annotation is not private, B's PUT succeeds exactly when B holds a write
\* grant, and is refused with 403 otherwise.
C5_PrivateExcludesGrantees ==
  lastReq # None /\ Accessed(lastReq[1]) =>
    LET r == lastReq[1]
        doc == r.doc[1]
    IN doc.userId.oid # r.user =>
         /\ doc.isPrivate => r.status = 403
         /\ ~doc.isPrivate /\ r.op = "put" =>
              IF HasGrant(doc, r.user, "write") THEN r.status = 200 ELSE r.status = 403

\* B's PUT on A's private annotation was refused although B holds a write grant
C5_Witness ==
  /\ lastReq # None
  /\ LET r == lastReq[1]
     IN /\ r.op = "put" /\ r.valid /\ r.doc # None
        /\ r.doc[1].isPrivate
        /\ r.doc[1].userId.oid # r.user
        /\ HasGrant(r.doc[1], r.user, "write")
        /\ r.status = 403

\* a PUT, DELETE or share request that found its annotation, from a user the
\* specification does not authorise for it
Unauthorised(r) ==
  /\ r.op \in {"put", "delete", "share"}
  /\ r.doc # None
  /\ IF r.op = "put" THEN ~Granted(r.doc[1], r.user, "write")
     ELSE r.doc[1].userId.oid # r.user

\* C6 (as stated): a mutating request from a user not authorised for it is
\* answered 403 and changes neither the documents nor the files.
C6_UnauthorisedAnswered403 ==
  lastReq # None /\ Unauthorised(lastReq[1]) =>
    lastReq[1].status = 403 /\ ~lastReq[1].changed

\* C6 (amended): a mutating request from a user not authorised for it changes
\* neither the documents nor the files; it is answered 403 when its body is
\* well-formed and 400 when it is not, the body being validated first.
C6_RefusedRequestChangesNothing ==
  lastReq # None /\ Unauthorised(lastReq[1]) =>
    /\ lastReq[1].status = IF lastReq[1].valid THEN 403 ELSE 400
    /\ ~lastReq[1].changed

\* a user who is not the owner asked to delete an annotation with audio: 403,
\* and the document and its file are still there
C6_Witness ==
  /\ lastReq # None
  /\ LET r == lastReq[1]
     IN /\ r.op = "delete" /\ r.doc # None
        /\ r.doc[1].userId.oid # r.user
        /\ r.doc[1].content.audioData # None
        /\ r.status = 403
        /\ r.id \in DOMAIN annotations /\ annotations[r.id] = r.doc[1]
        /\ r.doc[1].content.audioData[1] \in disk

\* C7 (as stated): after every delete request, the document of an annotation
\* created with an audio file is gone if and only if that file is gone.
C7_DocumentGoneIffFileGone ==
  lastReq # None /\ lastReq[1].op = "delete" =>
    \A id \in DOMAIN uploaded :
       uploaded[id] # None => (id \notin DOMAIN annotations <=> uploaded[id][1] \notin disk)

(***************************************************************************)
(*                CLAIMS ABOUT THE VIEWER-STATE BACKEND                    *)
(***************************************************************************)

\* the last step was a save request that completed
SaveCompleted == lastSave # None /\ lastSave[1].op = "save" /\ lastSave[1].status = 200

\* the documents stored under the key of request r
UnderKey(states, r) ==
  {d \in states : /\ d.userId = r.userId
                  /\ d.studyInstanceUID = r.studyInstanceUID
                  /\ d.sessionId = r.sessionId}

\* the documents of the (user, study) of request r
OfStudy(states, r) ==
  {d \in states : d.userId = r.userId /\ d.studyInstanceUID = r.studyInstanceUID}

\* the collection as it was before request r
Before(r) ==
  (r.stored \ UnderKey(r.stored, r)) \cup {r.prior[i] : i \in 1..Len(r.prior)}

Latest(S, k) == {d \in S : Cardinality({e \in S : e.updatedAt > d.updatedAt}) < k}

\* C9 (as stated): every completed save leaves for its (user, study) exactly
\* the min(n, 10) documents with the latest update time, n being the number
\* stored for it once the save is written, the one just saved among them, and
\* removes no document of another user or study.
C9_SaveKeepsLatestTen ==
  SaveCompleted =>
    LET r == lastSave[1]
    IN /\ OfStudy(viewerStates, r) = Latest(OfStudy(r.stored, r), KeepLatest)
       /\ UnderKey(viewerStates, r) # {}
       /\ viewerStates \ OfStudy(viewerStates, r) = Before(r) \ OfStudy(Before(r), r)

\* C10 (as stated): in every state reached by completed save and auto-save
\* requests, no (user, study) has more than 10 documents.
C10_AtMostTenPerStudy ==
  \A userId \in Users, studyInstanceUID \in Studies :
     Cardinality(findForStudy(viewerStates, userId, studyInstanceUID)) <= KeepLatest

(***************************************************************************)
(*                 CLAIMS ABOUT CONCURRENT VIEWER-STATE REQUESTS           *)
(***************************************************************************)

SameTriple(d, e) ==
  /\ d.userId = e.userId
  /\ d.studyInstanceUID = e.studyInstanceUID
  /\ d.sessionId = e.sessionId

\* a save request that has been answered and whose findOne found no document
SaveFoundNone(r) ==
  /\ requests[r].op = "save" /\ requests[r].pc = "done"
  /\ requests[r].state # None /\ requests[r].found = None

StatusOf(r) == requests[r].response[1].status

\* the request inserted the document of its triple
Created(r) == requests[r].wrote = Some(r)

\* one of the requests in rs inserted the document of the session
CreatedByOneOf(rs, sessionId) ==
  \E r \in rs : requests[r].sessionId = sessionId /\ Created(r)

WritersOf(d) == {r \in RequestIds : requests[r].wrote = Some(d._id)}

\* the request has been answered that its write succeeded
Succeeded(r) ==
  /\ requests[r].pc = "done" /\ requests[r].wrote # None
  /\ StatusOf(r) = 200 /\ requests[r].response[1].success

\* C12: the version of a stored viewer state counts the writes made to it,
\* also when the requests interleave: it is 1 after the insert and grows by
\* exactly 1 with every successful save or auto-save, so that no write is
\* lost, and two successful writes of one document never report the same
\* version.
C12_VersionCountsWrites ==
  /\ \A d \in viewerStates : d.version = Cardinality(WritersOf(d))
  /\ \A r1 \in RequestIds, r2 \in RequestIds :
       ( /\ r1 # r2 /\ Succeeded(r1) /\ Succeeded(r2)
         /\ requests[r1].wrote = requests[r2].wrote )
       => requests[r1].response[1].version # requests[r2].response[1].version

AutoSaveAnswered(r) == requests[r].op = "auto-save" /\ requests[r].pc = "done"

\* C13 as stated: every auto-save request is answered with a non-error HTTP
\* status, with success = true only when the document was written.
C13_AutoSaveNeverFails ==
  \A r \in RequestIds :
     AutoSaveAnswered(r)
     => /\ StatusOf(r) = 200
        /\ requests[r].response[1].success => requests[r].wrote # None

\* C13: an auto-save request that carries its state is answered 200 whatever
\* goes wrong, the duplicate-key race included, with success = true exactly
\* when it wrote the document
\* (the written document is in the store); a request without state is
\* answered 400 and writes nothing.
C13_AutoSaveFailsOnlyOnMissingField ==
  \A r \in RequestIds :
     AutoSaveAnswered(r)
     => IF requests[r].state = None
        THEN StatusOf(r) = 400 /\ requests[r].wrote = None
        ELSE /\ StatusOf(r) = 200
             /\ requests[r].response[1].success <=> requests[r].wrote # None
             /\ requests[r].wrote # None
                  => \E d \in viewerStates : /\ d._id = requests[r].wrote[1]
                                             /\ d.sessionId = requests[r].sessionId

\* an auto-save lost the race for the insert and was answered success = false
C13_Witness ==
  \E r \in RequestIds :
     /\ AutoSaveAnswered(r) /\ requests[r].state # None
     /\ StatusOf(r) = 200 /\ ~requests[r].response[1].success
     /\ \E d \in viewerStates : d.sessionId = requests[r].sessionId /\ d._id # r

(***************************************************************************)
(*                     CLAIMS ABOUT UPLOADED AUDIO FILES                   *)
(***************************************************************************)

\* the last request was a create that stored an audio file and ended without
\* creating the annotation
CreateFailedWithFile ==
  /\ lastReq # None
  /\ lastReq[1].op = "create" /\ lastReq[1].file # None
  /\ lastReq[1].status # 201
  /\ lastReq[1].id \notin DOMAIN annotations

\* C14: when a create request that stored an audio file has been answered
\* without creating an annotation (validation failure, a field that does not
\* parse, an error of save), the stored file is no longer on disk.
C14_FailedCreateRemovesFile ==
  CreateFailedWithFile => lastReq[1].file[1] \notin disk

C14_Witness ==
  /\ CreateFailedWithFile
  /\ lastReq[1].status = 500
  /\ lastReq[1].file[1] \notin disk

(***************************************************************************)
(*                  CLAIMS ABOUT THE MANAGER'S LIFE CYCLE                  *)
(***************************************************************************)

\* the tool each known preset names
ToolOf(id) == IF id = "canal-angle" THEN "Angle" ELSE "Length"

KnownPresetIds == {"periapical-length", "canal-angle", "crown-width", "root-length"}

\* C15: selectPreset(id) makes the active-preset query return id; it issues
\* one setToolActive call, with the tool of that preset and the tool groups
\* given at initialisation, when id is a known preset and the manager is
\* initialised, and no call at all otherwise.
C15_SelectActivatesKnownPreset ==
  lastRun.op = "select"
  => /\ getActiveDentalPresetId = lastRun.preset
     /\ IF lastRun.preset[1] \in KnownPresetIds /\ integration # None
        THEN /\ Len(lastRun.commands) = 1
             /\ lastRun.commands[1].commandName = "setToolActive"
             /\ lastRun.commands[1].options.toolName = ToolOf(lastRun.preset[1])
             /\ lastRun.commands[1].options.toolGroupIds = integration[1].toolGroupIds
        ELSE lastRun.commands = <<>>

C15_Witness ==
  /\ lastRun.op = "select"
  /\ lastRun.preset = Some("canal-angle")
  /\ getActiveDentalPresetId = Some("canal-angle")
  /\ integration # None /\ integration[1].toolGroupIds = <<"default", "mpr">>
  /\ Len(lastRun.commands) = 1

\* an id that is no preset was selected while the manager was initialised
C15_WitnessUnknown ==
  /\ lastRun.op = "select"
  /\ lastRun.preset[1] \notin KnownPresetIds
  /\ integration # None
  /\ lastRun.commands = <<>>

\* C16: after teardown none of the manager's handlers is subscribed, the
\* active preset is null and the active tooth is null.
C16_TeardownClearsEverything ==
  lastRun.op = "teardown"
  => /\ ~subscribed /\ listeners = 0
     /\ activePresetId = None
     /\ activeTooth = None

\* every measurement the handlers can be handed in this state
Handed == {measurements[u] : u \in DOMAIN measurements}
            \cup {pending[i].measurement[1] :
                    i \in {j \in 1..Len(pending) : pending[j].measurement # None}}

\* C17 (state part): while the manager has no integration (before the first
\* initialisation with services, after teardown) no handler is subscribed,
\* the added and updated handlers would issue no update for any measurement,
\* and a select or re-scan that ran issued no host call.
C17_NoHostCallWithoutServices ==
  integration = None
  => /\ ~subscribed /\ listeners = 0
     /\ \A m \in Handed : /\ handleMeasurementAdded(m) = <<>>
                          /\ handleMeasurementUpdated(m) = <<>>
     /\ lastRun.op \in {"select", "rescan", "init-lacking"}
          => lastRun.updates = <<>> /\ lastRun.commands = <<>>

\* C17 (step part): an initialisation that lacks the measurement service or
\* the commands manager changes neither the integration nor the
\* subscriptions, and issues no host call.
C17_LackingInitChangesNothing ==
  [][lastRun'.op = "init-lacking"
       => /\ UNCHANGED <<integration, subscribed, listeners, activePresetId,
                         activeTooth, measurements, pending>>
          /\ lastRun'.updates = <<>> /\ lastRun'.commands = <<>>]_vars

\* C17: the manager silently does nothing while host services are missing.
C17_SilentWithoutServices ==
  []C17_NoHostCallWithoutServices /\ C17_LackingInitChangesNothing

\* a re-scan ran without integration over a measurement it would otherwise tag
C17_Witness ==
  /\ integration = None
  /\ lastRun.op = "rescan"
  /\ \E u \in DOMAIN measurements :
        /\ ~measurementHasDentalMetadata(measurements[u])
        /\ matchedPresetOf(measurements[u].label) # None

\* an initialisation lacking services ran while a previous one was in place
C17_WitnessLackingInit ==
  lastRun.op = "init-lacking" /\ integration # None /\ subscribed

(***************************************************************************)
(*                        CLAIMS ABOUT THE RE-SCAN                         *)
(***************************************************************************)

\* the measurements that carried a preset id or a preset label when the
\* re-scan of the last step started
TaggedBefore ==
  {i \in 1..Len(lastRun.before) :
      \/ Truthy(lastRun.before[i].metadata.dentalPresetId)
      \/ Truthy(lastRun.before[i].metadata.dentalPresetLabel)}

\* C18: the re-scan issues no update for a measurement that already carries
\* a preset id or a preset label, and leaves it stored as it was.
C18_RescanSkipsTagged ==
  lastRun.op = "rescan"
  => \A i \in TaggedBefore :
        LET m == lastRun.before[i]
        IN /\ \A k \in 1..Len(lastRun.updates) : lastRun.updates[k].uid # m.uid
           /\ m.uid \in DOMAIN measurements /\ measurements[m.uid] = m

\* a re-scan with integration met a tagged measurement whose label names a
\* preset
C18_Witness ==
  /\ lastRun.op = "rescan" /\ lastRun.ready
  /\ \E i \in TaggedBefore : matchedPresetOf(lastRun.before[i].label) # None

(***************************************************************************)
(*                      CLAIMS ABOUT SUBSCRIPTIONS                         *)
(***************************************************************************)

\* C20: the host holds at most one set of the manager's three handlers
\* (added, updated, cleared) after any sequence of initialise and teardown
\* calls: exactly one when the manager holds subscriptions, which is the case
\* after every initialisation with services, the repeated one included, and
\* none otherwise.
C20_OneHandlerPerEvent ==
  /\ listeners \in {0, 1}
  /\ subscribed <=> listeners = 1
  /\ lastRun.op = "init" => listeners = 1

\* an initialisation with services ran while the previous one was in place
C20_Witness ==
  lastRun.op = "init" /\ lastRun.ready /\ listeners = 1 /\ subscribed

(***************************************************************************)
(*                       CLAIMS ABOUT THE SHARE LIST                       *)
(***************************************************************************)

\* C19: after any sequence of share requests of the owner the share list of
\* an annotation holds at most one entry per user.
C19_OneShareEntryPerUser ==
  \A id \in DOMAIN annotations :
     \A i \in 1..Len(annotations[id].sharedWith), j \in 1..Len(annotations[id].sharedWith) :
        annotations[id].sharedWith[i].userId.oid = annotations[id].sharedWith[j].userId.oid
        => i = j

(***************************************************************************)
(*                        CLAIMS ABOUT THE EXPORT                          *)
(***************************************************************************)

\* C21: the export maps every listed measurement to the six fields uid,
\* label, value, unit, tooth and source: label is the metadata's preset label
\* (the measurement's own label when there is none), value, unit, tooth and
\* source are the metadata's dentalValue, dentalUnit, dentalTooth and
\* dentalPresetId, each null when absent; the documented example yields the
\* documented object.
C21_ExportShape ==
  exportPayload # None
  => LET listed == exportPayload[1].listed
         payload == exportPayload[1].payload
     IN /\ Len(payload) = Len(listed)
        /\ \A i \in 1..Len(listed) :
             LET m == listed[i]
                 x == payload[i]
             IN /\ DOMAIN x = {"uid", "label", "value", "unit", "tooth", "source"}
                /\ x.uid = m.uid
                /\ x.label = IF m.metadata.dentalPresetLabel # None
                             THEN m.metadata.dentalPresetLabel
                             ELSE m.label
                /\ x.value = m.metadata.dentalValue
                /\ x.unit = m.metadata.dentalUnit
                /\ x.tooth = m.metadata.dentalTooth
                /\ x.source = m.metadata.dentalPresetId
                /\ m.metadata = ExampleMetadata
                     => x = [uid |-> m.uid, label |-> <<"PA length">>,
                             value |-> Some(155), unit |-> Some("mm"),
                             tooth |-> Some([system |-> "FDI", value |-> "11"]),
                             source |-> Some("periapical-length")]

\* the documented example has been exported
C21_Witness ==
  /\ exportPayload # None
  /\ \E i \in 1..Len(exportPayload[1].listed) :
        /\ exportPayload[1].listed[i].metadata = ExampleMetadata
        /\ exportPayload[1].payload[i].source = Some("periapical-length")

\* a measurement without preset label has been exported under its own label
C21_WitnessOwnLabel ==
  /\ exportPayload # None
  /\ \E i \in 1..Len(exportPayload[1].listed) :
        /\ exportPayload[1].listed[i].metadata.dentalPresetLabel = None
        /\ exportPayload[1].payload[i].label = exportPayload[1].listed[i].label
        /\ exportPayload[1].payload[i].value = None

(***************************************************************************)
(*                     CLAIMS ABOUT THE PRESET TABLE                       *)
(***************************************************************************)

\* the documented table: preset id -> <<tool, unit>>
DocumentedPresets ==
  [id \in {"periapical-length", "canal-angle", "crown-width", "root-length"} |->
     IF id = "canal-angle" THEN <<"Angle", "°">> ELSE <<"Length", "mm">>]

\* C22: the preset table has exactly 4 presets, their ids are pairwise
\* distinct, and the tool and unit of each are the documented ones; so are
\* those of the preset found for the preset id of any stored measurement.
C22_PresetTable ==
  /\ Len(DENTAL_MEASUREMENT_PRESETS) = 4
  /\ \A i \in 1..Len(DENTAL_MEASUREMENT_PRESETS), j \in 1..Len(DENTAL_MEASUREMENT_PRESETS) :
        DENTAL_MEASUREMENT_PRESETS[i].id = DENTAL_MEASUREMENT_PRESETS[j].id => i = j
  /\ \A i \in 1..Len(DENTAL_MEASUREMENT_PRESETS) :
        LET p == DENTAL_MEASUREMENT_PRESETS[i]
        IN /\ p.id \in DOMAIN DocumentedPresets
           /\ <<p.toolName, p.unit>> = DocumentedPresets[p.id]
  /\ \A u \in DOMAIN measurements :
        LET presetId == measurements[u].metadata.dentalPresetId
        IN (presetId # None /\ PresetById(presetId[1]) # None)
           => /\ presetId[1] \in DOMAIN DocumentedPresets
              /\ <<PresetById(presetId[1])[1].toolName, PresetById(presetId[1])[1].unit>>
                   = DocumentedPresets[presetId[1]]

\* the panel lists a measurement of the angle preset, found in the table
C22_Witness ==
  \E u \in DOMAIN measurements :
     /\ measurements[u].metadata.dentalPresetId = Some("canal-angle")
     /\ PresetById("canal-angle") # None
     /\ PresetById("canal-angle")[1].unit = "°"

(***************************************************************************)
(*                 CLAIMS ABOUT WHAT ENRICHMENT STAMPS                     *)
(***************************************************************************)

\* the last step ran the added or the updated handler on a measurement
HandlerRan == lastRun.op \in {"added", "updated"} /\ lastRun.before # None

\* C23: an update issued by the added or the updated handler keeps the tooth
\* the measurement already carried, whatever the active tooth is, and its
\* label names the tooth of its own metadata (no tooth when it has none).
C23_ToothAttachedOnce ==
  HandlerRan
  => \A k \in 1..Len(lastRun.updates) :
        LET b == lastRun.before[1]
            u == lastRun.updates[k]
        IN /\ b.metadata.dentalTooth # None
                => /\ u.metadata.dentalTooth = b.metadata.dentalTooth
                   /\ measurements[u.uid].metadata.dentalTooth = b.metadata.dentalTooth
           /\ IF u.metadata.dentalTooth # None
              THEN /\ Len(u.label) = 6
                   /\ u.label[3] = u.metadata.dentalTooth[1].system
                   /\ u.label[5] = u.metadata.dentalTooth[1].value
              ELSE Len(u.label) = 1

\* a measurement of tooth FDI 11 was re-stamped while another tooth was active
C23_Witness ==
  /\ HandlerRan
  /\ lastRun.before[1].metadata.dentalTooth = Some([system |-> "FDI", value |-> "11"])
  /\ lastRun.tooth = Some([system |-> "UNIVERSAL", value |-> "3"])
  /\ Len(lastRun.updates) = 1
  /\ lastRun.updates[1].label = <<"PA length", " (", "FDI", " ", "11", ")">>

\* the handler of the last step ran on a measurement without looking at the
\* active preset first: the updated handler, or the added handler while no
\* preset was active
RanWithoutActivePreset ==
  /\ HandlerRan
  /\ lastRun.op = "updated" \/ ~Truthy(lastRun.preset)

\* the preset a measurement's metadata records: the one of its preset id,
\* or of its preset label when it has no id
OwnPreset(b) ==
  IF Truthy(b.metadata.dentalPresetId)
  THEN PresetById(b.metadata.dentalPresetId[1])
  ELSE find(DENTAL_MEASUREMENT_PRESETS,
            {i \in 1..Len(DENTAL_MEASUREMENT_PRESETS) :
               Some(DENTAL_MEASUREMENT_PRESETS[i].label) = b.metadata.dentalPresetLabel})

\* C24: a measurement that carries dental metadata (a preset id or a preset
\* label) is re-stamped with the preset recorded in its own metadata, whatever
\* the active preset is; a measurement without dental metadata is not
\* modified.
C24_RestampUsesOwnPreset ==
  RanWithoutActivePreset
  => LET b == lastRun.before[1]
     IN IF measurementHasDentalMetadata(b)
        THEN \A k \in 1..Len(lastRun.updates) :
                /\ OwnPreset(b) # None
                /\ lastRun.updates[k].metadata.dentalPresetId = Some(OwnPreset(b)[1].id)
                /\ lastRun.updates[k].metadata.dentalPresetLabel = Some(OwnPreset(b)[1].label)
                /\ lastRun.updates[k].metadata.dentalUnit = Some(OwnPreset(b)[1].unit)
        ELSE lastRun.updates = <<>>

(***************************************************************************)
(*                  CLAIMS ABOUT PRESETS AND TOOLS                         *)
(***************************************************************************)

\* C25: every measurement stamped with a known preset was drawn with the
\* tool of that preset: none drawn with Length carries the angle preset, none
\* drawn with Angle carries a length preset.
C25_PresetMatchesTool ==
  \A u \in DOMAIN measurements \cap DOMAIN drawnWith :
     LET presetId == measurements[u].metadata.dentalPresetId
     IN (presetId # None /\ PresetById(presetId[1]) # None)
        => PresetById(presetId[1])[1].toolName = drawnWith[u]

(***************************************************************************)
(*                CLAIMS ABOUT WHO MAY CHANGE ACCESS                       *)
(***************************************************************************)

\* the last request was an update by a user who does not own the annotation,
\* and it was carried out
UpdatedByGrantee ==
  /\ lastReq # None
  /\ lastReq[1].op = "put" /\ lastReq[1].status = 200
  /\ lastReq[1].doc # None
  /\ lastReq[1].doc[1].userId.oid # lastReq[1].user

\* C26: an update by a non-owner holding a write grant leaves the owner, the
\* share list and the isPrivate flag of the annotation as they were, so that
\* every user can read and write it after the update exactly if he could
\* before.
C26_GranteeCannotChangeAccess ==
  UpdatedByGrantee
  => LET before == lastReq[1].doc[1]
         after == annotations[lastReq[1].id]
     IN /\ after.userId = before.userId
        /\ after.sharedWith = before.sharedWith
        /\ after.isPrivate = before.isPrivate
        /\ \A u \in Users, permission \in Permissions :
              canAccess(after, Ref(u), permission) <=> canAccess(before, Ref(u), permission)

\* the audio files the existing annotations refer to
Referenced ==
  {annotations[id].content.audioData[1] :
     id \in {i \in DOMAIN annotations : annotations[i].content.audioData # None}}

\* C27: after any sequence of completed create, update and delete requests
\* the audio files on disk are exactly the files the existing annotations
\* refer to, and no two annotations refer to the same file.
C27_DiskMatchesAnnotations ==
  /\ disk = Referenced
  /\ \A i \in DOMAIN annotations, j \in DOMAIN annotations :
        ( /\ annotations[i].content.audioData # None
          /\ annotations[i].content.audioData = annotations[j].content.audioData )
        => i = j

(***************************************************************************)
(*                     CLAIMS ABOUT THE API CLIENT                         *)
(***************************************************************************)

\* C28: every request of the API client terminates: whatever the server
\* answers to it, to its retry and to the refresh request, a request that
\* was sent eventually resolves or rejects.
C28_EveryRequestSettles ==
  \A c \in CallIds :
     (calls[c].pc # "unused") ~> (calls[c].pc \in {"resolved", "rejected"})

(***************************************************************************)
(*                    CLAIMS ABOUT THE STATE SERVICE                       *)
(***************************************************************************)

\* C29: while auto-save is disabled the state service issues no auto-save
\* request: every auto-save request was issued with isAutoSaveEnabled true,
\* whatever timer called performAutoSave.
C29_NoAutoSaveWhileDisabled ==
  \A i \in DOMAIN autoSaves : autoSaves[i].enabled

\* C30: a state is recorded as last saved only when the server persisted it:
\* an auto-save whose answer made the service set lastSavedState was answered
\* with success true.
C30_RecordedOnlyWhenPersisted ==
  \A i \in DOMAIN autoSaves :
     autoSaves[i].recorded => autoSaves[i].response[1].success

====
